---- MODULE Spec2Model ----
(***************************************************************************)
(* Calibration engine of the GIS viewer (class GISViewer).                 *)
(*                                                                         *)
(* Numbers.  A JavaScript number is modelled as a pair <<n, d>>:           *)
(*   d > 0        the rational n/d in lowest terms (exact arithmetic, so   *)
(*                rounding of IEEE doubles is not modelled);               *)
(*   <<1, 0>>     +Infinity,   <<-1, 0>>  -Infinity,   <<0, 0>>  NaN.      *)
(* Division by zero therefore yields an infinity or NaN, as in the code.   *)
(* Zero carries no sign.                                                   *)
(*                                                                         *)
(* Units.  Pixel coordinates are plain numbers.  Latitudes and longitudes  *)
(* are held in units of 1e-5 degree, so that the transform coefficients    *)
(* are in 1e-5 degree (per pixel) and the determinant a*e - b*d is in      *)
(* 1e-10 degree^2: the test |det| < 1e-10 of geoToPixel reads |det| < 1    *)
(* in these units.  Every other quantity compared with 1e-10 is built from *)
(* pixel coordinates only and keeps the literal tolerance.                 *)
(***************************************************************************)
EXTENDS Integers, Sequences, FiniteSets, TLC

\* ------------------------------------------------------------------ bounds
MaxPixX == 2       \* pixel x coordinates are drawn from 0..MaxPixX
MaxPixY == 1       \* pixel y coordinates are drawn from 0..MaxPixY
MaxGeo == 1        \* latitudes, longitudes are drawn from 0..MaxGeo (1e-5 degree)
MaxPoints == 3     \* at most MaxPoints reference points are confirmed
MaxWheel == 3      \* at most MaxWheel wheel events are handled
MaxMeasurements == 1   \* at most MaxMeasurements measurements are saved
MaxDim == 3        \* gaussianElimination is called on n x n systems, n in 2..MaxDim
MaxEntry == 1      \* with entries from -MaxEntry..MaxEntry
MaxFitPix == 2     \* fitted pixels are drawn from (0..MaxFitPix) x (0..MaxFitPix)
MaxFitPoints == 4  \* calculateAffineTransform is called on 3..MaxFitPoints points
MaxAnnotations == 1    \* at most MaxAnnotations annotations are confirmed

\* ----------------------------------------------------------------- numbers
NULL == [null |-> TRUE]

AbsInt(i) == IF i < 0 THEN -i ELSE i

RECURSIVE GCD(_, _)
GCD(i, j) == IF j = 0 THEN i ELSE GCD(j, i % j)

SignInt(i) == IF i > 0 THEN 1 ELSE IF i < 0 THEN -1 ELSE 0

\* lowest terms, positive denominator; n/0 collapses to an infinity or NaN
Norm(n, d) ==
    IF d = 0 THEN <<SignInt(n), 0>>
    ELSE LET g == GCD(AbsInt(n), AbsInt(d))
             s == IF d < 0 THEN -1 ELSE 1
         IN  <<s * (n \div g), s * (d \div g)>>

Num(i) == <<i, 1>>
Zero == Num(0)
One == Num(1)
NaN == <<0, 0>>
PosInf == <<1, 0>>
NegInf == <<-1, 0>>

IsNaN(p) == p = NaN
IsFinite(p) == p[2] # 0

Neg(p) == <<-p[1], p[2]>>

Add(p, q) ==
    IF p[2] = 0 /\ q[2] = 0
    THEN (IF p = q THEN p ELSE NaN)
    ELSE Norm(p[1] * q[2] + q[1] * p[2], p[2] * q[2])

Sub(p, q) == Add(p, Neg(q))

Mul(p, q) == Norm(p[1] * q[1], p[2] * q[2])

Div(p, q) ==
    IF q[1] < 0 THEN Norm(-(p[1] * q[2]), p[2] * (-q[1]))
    ELSE Norm(p[1] * q[2], p[2] * q[1])

Abs(p) == <<AbsInt(p[1]), p[2]>>

\* p < q of JavaScript: false as soon as one side is NaN
Lt(p, q) ==
    /\ ~IsNaN(p)
    /\ ~IsNaN(q)
    /\ p # q
    /\ IF p[2] = 0 THEN p = NegInf
       ELSE IF q[2] = 0 THEN q = PosInf
       ELSE p[1] * q[2] < q[1] * p[2]

Gt(p, q) == Lt(q, p)

\* Math.abs(p) < 1e-10 for a quantity in plain (pixel) units:
\* |n|/d < 1/(10^5 * 10^5)  iff  |n| * 10^10 < d  iff  |n| <= (d-1) div 10^10
AbsBelowTol(p) ==
    /\ IsFinite(p)
    /\ AbsInt(p[1]) <= ((p[2] - 1) \div 100000) \div 100000

\* Math.abs(det) < 1e-10 for the determinant, held in units of 1e-10 degree^2
DetBelowTol(det) == Lt(Abs(det), One)

\* ------------------------------------------------- LinearSolver (lines 441-484)
\* row with the largest |A[k][i]| among rows i..n, first one on ties
RECURSIVE FindPivot(_, _, _, _)
FindPivot(A, i, k, maxRow) ==
    IF k > Len(A) THEN maxRow
    ELSE FindPivot(A, i, k + 1,
                   IF Gt(Abs(A[k][i]), Abs(A[maxRow][i])) THEN k ELSE maxRow)

SwapRows(M, i, r) ==
    [k \in 1..Len(M) |-> IF k = i THEN M[r] ELSE IF k = r THEN M[i] ELSE M[k]]

\* rows below i lose their multiple of row i (columns i..n) and b follows
EliminateColumn(A, b, i) ==
    LET n == Len(A)
        factor(k) == Div(A[k][i], A[i][i])
    IN  [A |-> [k \in 1..n |->
                  IF k > i
                  THEN [j \in 1..n |->
                          IF j >= i THEN Sub(A[k][j], Mul(factor(k), A[i][j]))
                          ELSE A[k][j]]
                  ELSE A[k]],
         b |-> [k \in 1..n |->
                  IF k > i THEN Sub(b[k], Mul(factor(k), b[i])) ELSE b[k]]]

\* forward elimination from column i on; NULL when a pivot is below 1e-10
RECURSIVE ForwardElimination(_, _, _)

\* the next column, on the matrix and vector the elimination left
NextColumn(e, i) == ForwardElimination(e.A, e.b, i + 1)

\* mutant: no singularity test before the elimination of column i
PivotStep_noSingularTest(A, b, i) == NextColumn(EliminateColumn(A, b, i), i)

\* after the swap: the singularity test, then the elimination of column i
PivotStep(A, b, i) ==
    IF AbsBelowTol(A[i][i]) THEN NULL
    ELSE NextColumn(EliminateColumn(A, b, i), i)

\* rows i and maxRow of A and of b change places
SwapStep(A, b, i, maxRow) ==
    PivotStep(SwapRows(A, i, maxRow), SwapRows(b, i, maxRow), i)

ForwardElimination(A, b, i) ==
    IF i > Len(A) THEN [A |-> A, b |-> b]
    ELSE SwapStep(A, b, i, FindPivot(A, i, i + 1, i))

\* x[i] = (b[i] - sum over j > i of A[i][j] * x[j]) / A[i][i], last row first
BackSubstitution(A, b) ==
    LET n == Len(A)
        x[i \in 1..n] ==
            LET acc[j \in i..n] ==
                    IF j = i THEN b[i]
                    ELSE Sub(acc[j - 1], Mul(A[i][j], x[j]))
            IN  Div(acc[n], A[i][i])
    IN  [i \in 1..n |-> x[i]]

\* null when the elimination met a singular pivot, else the solution x
SolveEliminated(fwd) ==
    IF fwd = NULL THEN NULL ELSE BackSubstitution(fwd.A, fwd.b)

gaussianElimination(A, b) == SolveEliminated(ForwardElimination(A, b, 1))

\* --------------------------------------------- LeastSquaresFitter (415-436)
\* mutant: a ridge term, 1 is added to the diagonal of A^T * A
leastSquares_regularised(A, b) ==
    LET m == Len(A)
        n == Len(A[1])
        AtAij(i, j) ==
            LET s[k \in 0..m] ==
                    IF k = 0 THEN (IF i = j THEN One ELSE Zero)
                    ELSE Add(s[k - 1], Mul(A[k][i], A[k][j]))
            IN  s[m]
        Atbi(i) ==
            LET s[k \in 0..m] ==
                    IF k = 0 THEN Zero ELSE Add(s[k - 1], Mul(A[k][i], b[k]))
            IN  s[m]
        AtA == [i \in 1..n |-> [j \in 1..n |-> AtAij(i, j)]]
        Atb == [i \in 1..n |-> Atbi(i)]
    IN  gaussianElimination(AtA, Atb)

leastSquares(A, b) ==
    LET m == Len(A)
        n == Len(A[1])
        AtAij(i, j) ==
            LET s[k \in 0..m] ==
                    IF k = 0 THEN Zero ELSE Add(s[k - 1], Mul(A[k][i], A[k][j]))
            IN  s[m]
        Atbi(i) ==
            LET s[k \in 0..m] ==
                    IF k = 0 THEN Zero ELSE Add(s[k - 1], Mul(A[k][i], b[k]))
            IN  s[m]
        AtA == [i \in 1..n |-> [j \in 1..n |-> AtAij(i, j)]]
        Atb == [i \in 1..n |-> Atbi(i)]
    IN  gaussianElimination(AtA, Atb)

\* ------------------------------------------------------- AffineCalibrator
\* "self" is the GISViewer object: a record of the fields the methods touch.

StatusText(self) ==
    IF self.isCalibrated
    THEN [text |-> "Calibrated", points |-> Len(self.referencePoints)]
    ELSE [text |-> "Not Calibrated", points |-> 0]

updateCalibrationStatus(self) ==
    [self EXCEPT !.calibrationStatus = StatusText(self)]

updateUI(self) == updateCalibrationStatus(self)

\* the design matrix rows [x, y, 1] and the two right-hand sides (389-398)
DesignMatrix(pts) == [i \in 1..Len(pts) |-> <<pts[i].pixel.x, pts[i].pixel.y, One>>]
LatColumn(pts) == [i \in 1..Len(pts) |-> pts[i].geo.lat]
LngColumn(pts) == [i \in 1..Len(pts) |-> pts[i].geo.lng]

\* mutant: the latitude coefficients are stored as d, e, f and the longitude
\* coefficients as a, b, c
StoreCoefficients_swapped(self, latCoeffs, lngCoeffs) ==
    IF latCoeffs # NULL /\ lngCoeffs # NULL
    THEN [self EXCEPT !.transform =
             [a |-> lngCoeffs[1], b |-> lngCoeffs[2], c |-> lngCoeffs[3],
              d |-> latCoeffs[1], e |-> latCoeffs[2], f |-> latCoeffs[3]]]
    ELSE self

\* the transform is assigned only when both fits returned coefficients (404-409)
StoreCoefficients(self, latCoeffs, lngCoeffs) ==
    IF latCoeffs # NULL /\ lngCoeffs # NULL
    THEN [self EXCEPT !.transform =
             [a |-> latCoeffs[1], b |-> latCoeffs[2], c |-> latCoeffs[3],
              d |-> lngCoeffs[1], e |-> lngCoeffs[2], f |-> lngCoeffs[3]]]
    ELSE self

calculateAffineTransform(self) ==
    StoreCoefficients(self,
        leastSquares(DesignMatrix(self.referencePoints), LatColumn(self.referencePoints)),
        leastSquares(DesignMatrix(self.referencePoints), LngColumn(self.referencePoints)))

\* mutant: the two scales taken over the wrong pixel axes
TwoPointTransform_swappedAxes(p1, p2) ==
    LET dx == Sub(p2.pixel.x, p1.pixel.x)
        dy == Sub(p2.pixel.y, p1.pixel.y)
        dLat == Sub(p2.geo.lat, p1.geo.lat)
        dLng == Sub(p2.geo.lng, p1.geo.lng)
        scaleLat == Div(dLat, dx)
        scaleLng == Div(dLng, dy)
    IN  [a |-> Zero, b |-> scaleLat,
         c |-> Sub(p1.geo.lat, Mul(scaleLat, p1.pixel.y)),
         d |-> scaleLng, e |-> Zero,
         f |-> Sub(p1.geo.lng, Mul(scaleLng, p1.pixel.x))]

\* the two-point branch of calculateTransform (lines 350-372)
TwoPointTransform(p1, p2) ==
    LET dx == Sub(p2.pixel.x, p1.pixel.x)
        dy == Sub(p2.pixel.y, p1.pixel.y)
        dLat == Sub(p2.geo.lat, p1.geo.lat)
        dLng == Sub(p2.geo.lng, p1.geo.lng)
        scaleLat == Div(dLat, dy)
        scaleLng == Div(dLng, dx)
    IN  [a |-> Zero, b |-> scaleLat,
         c |-> Sub(p1.geo.lat, Mul(scaleLat, p1.pixel.y)),
         d |-> scaleLng, e |-> Zero,
         f |-> Sub(p1.geo.lng, Mul(scaleLng, p1.pixel.x))]

\* mutant: the degeneracy test reads the geographic deltas
TwoPointDegenerate_geoDeltas(p1, p2) ==
    /\ AbsBelowTol(Sub(p2.geo.lat, p1.geo.lat))
    /\ AbsBelowTol(Sub(p2.geo.lng, p1.geo.lng))

\* the degeneracy test of the two-point branch (line 360)
TwoPointDegenerate(p1, p2) ==
    /\ AbsBelowTol(Sub(p2.pixel.x, p1.pixel.x))
    /\ AbsBelowTol(Sub(p2.pixel.y, p1.pixel.y))

\* mutant: the first test reads "length < 1"
calculateTransform_offByOne(self) ==
    LET pts == self.referencePoints
    IN  IF Len(pts) < 1
        THEN [self EXCEPT !.isCalibrated = FALSE, !.transform = NULL]
        ELSE IF Len(pts) = 2 /\ TwoPointDegenerate(pts[1], pts[2])
        THEN [self EXCEPT !.isCalibrated = FALSE]
        ELSE LET fitted ==
                    IF Len(pts) = 2
                    THEN [self EXCEPT !.transform = TwoPointTransform(pts[1], pts[2])]
                    ELSE calculateAffineTransform(self)
             IN  updateCalibrationStatus([fitted EXCEPT !.isCalibrated = TRUE])

\* mutant: an incremental update, the new offsets are added to the stored ones
calculateTransform_incremental(self) ==
    LET pts == self.referencePoints
    IN  IF Len(pts) < 2
        THEN [self EXCEPT !.isCalibrated = FALSE, !.transform = NULL]
        ELSE IF Len(pts) = 2 /\ TwoPointDegenerate(pts[1], pts[2])
        THEN [self EXCEPT !.isCalibrated = FALSE]
        ELSE LET fitted ==
                    IF Len(pts) = 2
                    THEN [self EXCEPT !.transform = TwoPointTransform(pts[1], pts[2])]
                    ELSE calculateAffineTransform(self)
                 summed ==
                    IF self.transform = NULL \/ fitted.transform = NULL THEN fitted
                    ELSE [fitted EXCEPT !.transform.c = Add(@, self.transform.c),
                                        !.transform.f = Add(@, self.transform.f)]
             IN  updateCalibrationStatus([summed EXCEPT !.isCalibrated = TRUE])

\* mutant: the status element is left as it was on every path
calculateTransform_noStatus(self) ==
    LET pts == self.referencePoints
    IN  IF Len(pts) < 2
        THEN [self EXCEPT !.isCalibrated = FALSE, !.transform = NULL]
        ELSE IF Len(pts) = 2 /\ TwoPointDegenerate(pts[1], pts[2])
        THEN [self EXCEPT !.isCalibrated = FALSE]
        ELSE LET fitted ==
                    IF Len(pts) = 2
                    THEN [self EXCEPT !.transform = TwoPointTransform(pts[1], pts[2])]
                    ELSE calculateAffineTransform(self)
             IN  [fitted EXCEPT !.isCalibrated = TRUE]

calculateTransform(self) ==
    LET pts == self.referencePoints
    IN  IF Len(pts) < 2
        THEN [self EXCEPT !.isCalibrated = FALSE, !.transform = NULL]
        ELSE IF Len(pts) = 2 /\ TwoPointDegenerate(pts[1], pts[2])
        THEN [self EXCEPT !.isCalibrated = FALSE]
        ELSE LET fitted ==
                    IF Len(pts) = 2
                    THEN [self EXCEPT !.transform = TwoPointTransform(pts[1], pts[2])]
                    ELSE calculateAffineTransform(self)
             IN  updateCalibrationStatus([fitted EXCEPT !.isCalibrated = TRUE])

\* ----------------------------------------------------- CoordinateTransform
pixelToGeo(self, x, y) ==
    IF ~self.isCalibrated \/ self.transform = NULL THEN NULL
    ELSE LET t == self.transform
         IN  [lat |-> Add(Add(Mul(t.a, x), Mul(t.b, y)), t.c),
              lng |-> Add(Add(Mul(t.d, x), Mul(t.e, y)), t.f)]

\* mutant: no test of the determinant before the divisions
geoToPixelRun_noDetCheck(self, lat, lng) ==
    IF ~self.isCalibrated \/ self.transform = NULL
    THEN [ret |-> NULL, divisions |-> 0]
    ELSE LET t == self.transform
             det == Sub(Mul(t.a, t.e), Mul(t.b, t.d))
         IN  [ret |->
                [x |-> Div(Sub(Mul(t.e, Sub(lat, t.c)), Mul(t.b, Sub(lng, t.f))), det),
                 y |-> Div(Sub(Mul(t.a, Sub(lng, t.f)), Mul(t.d, Sub(lat, t.c))), det)],
              divisions |-> 2]

\* mutant: the off-diagonal coefficients b and d exchanged in the inverse
geoToPixelRun_transposed(self, lat, lng) ==
    IF ~self.isCalibrated \/ self.transform = NULL
    THEN [ret |-> NULL, divisions |-> 0]
    ELSE LET t == self.transform
             det == Sub(Mul(t.a, t.e), Mul(t.b, t.d))
         IN  IF DetBelowTol(det) THEN [ret |-> NULL, divisions |-> 0]
             ELSE [ret |->
                     [x |-> Div(Sub(Mul(t.e, Sub(lat, t.c)), Mul(t.d, Sub(lng, t.f))), det),
                      y |-> Div(Sub(Mul(t.a, Sub(lng, t.f)), Mul(t.b, Sub(lat, t.c))), det)],
                   divisions |-> 2]

\* one run of geoToPixel: the value returned and the divisions performed
geoToPixelRun(self, lat, lng) ==
    IF ~self.isCalibrated \/ self.transform = NULL
    THEN [ret |-> NULL, divisions |-> 0]
    ELSE LET t == self.transform
             det == Sub(Mul(t.a, t.e), Mul(t.b, t.d))
         IN  IF DetBelowTol(det) THEN [ret |-> NULL, divisions |-> 0]
             ELSE [ret |->
                     [x |-> Div(Sub(Mul(t.e, Sub(lat, t.c)), Mul(t.b, Sub(lng, t.f))), det),
                      y |-> Div(Sub(Mul(t.a, Sub(lng, t.f)), Mul(t.d, Sub(lat, t.c))), det)],
                   divisions |-> 2]

geoToPixel(self, lat, lng) == geoToPixelRun(self, lat, lng).ret

\* ------------------------------------------------------------------- state
VARIABLES
    referencePoints,        \* this.referencePoints: sequence of {pixel, geo}
    isCalibrated,           \* this.isCalibrated
    transform,              \* this.transform: NULL or [a, b, c, d, e, f]
    calibrationStatus,      \* text of the #calibration-status element
    measurements,           \* this.measurements: the saved distance measurements
    annotations,            \* this.annotations: the annotations added
    pendingReferencePoint,  \* this.pendingReferencePoint: NULL or the clicked pixel
    calibrationModal,       \* TRUE while the calibration modal is shown
    localStorage,           \* item 'gis-viewer-data': NULL or the saved JSON
    mapImage,               \* this.mapImage: NULL or [width, height]
    displayWidth,           \* this.displayWidth
    displayHeight,          \* this.displayHeight
    viewport,               \* this.viewport: [x, y, scale, minScale, maxScale]
    wheelEvents,            \* wheel events handled so far (at most MaxWheel)
    currentTool,            \* this.currentTool
    measurementPoints,      \* this.measurementPoints: clicks of the measurement under way
    canvas,                 \* what the last render() drew, NULL before the first
    system,                 \* the [A, b] of a call of gaussianElimination, NULL if none
    returned,               \* what the call under study returned, Pending before it
    importCall,             \* the running importJewishPopulationData call, NULL if none
    importResult,           \* what the last import resolved to, Pending before it
    geoJsonData,            \* this.geoJsonData: NULL or the overlay loaded
    pendingAnnotation,      \* this.pendingAnnotation: NULL or the clicked pixel
    annotationModal,        \* TRUE while the annotation modal is shown
    caches,                 \* CacheStorage: cache name |-> the URLs stored in it
    serviceWorker           \* the worker: its phase, the event it handles, its last response

\* the calibration and the stored data; the view; the tool; a call; the importer
viewVars == <<mapImage, displayWidth, displayHeight, viewport, wheelEvents, canvas>>
toolVars == <<currentTool, measurementPoints>>
callVars == <<system, returned>>
importVars == <<importCall, importResult>>
noteVars == <<geoJsonData, pendingAnnotation, annotationModal>>
workerVars == <<caches, serviceWorker>>

vars == <<referencePoints, isCalibrated, transform, calibrationStatus, measurements,
          annotations, pendingReferencePoint, calibrationModal, localStorage,
          viewVars, toolVars, callVars, importVars, noteVars, workerVars>>

\* the GISViewer object as the methods above see it
This ==
    [referencePoints |-> referencePoints,
     isCalibrated |-> isCalibrated,
     transform |-> transform,
     calibrationStatus |-> calibrationStatus,
     measurements |-> measurements,
     annotations |-> annotations]

\* the object's fields after a method returned "self"
Becomes(self) ==
    /\ referencePoints' = self.referencePoints
    /\ isCalibrated' = self.isCalibrated
    /\ transform' = self.transform
    /\ calibrationStatus' = self.calibrationStatus
    /\ measurements' = self.measurements
    /\ annotations' = self.annotations

\* the object's fields are those of "self"
Is(self) ==
    /\ referencePoints = self.referencePoints
    /\ isCalibrated = self.isCalibrated
    /\ transform = self.transform
    /\ calibrationStatus = self.calibrationStatus
    /\ measurements = self.measurements
    /\ annotations = self.annotations

\* a value that stands for "the call has not returned"
Pending == [pending |-> TRUE]

\* inputs
PixelXs == {Num(i) : i \in 0..MaxPixX}
PixelYs == {Num(i) : i \in 0..MaxPixY}
GeoCoords == {Num(i) : i \in 0..MaxGeo}
\* parseFloat of the text of a latitude / longitude field: a number, or NaN
ParsedInputs == GeoCoords \cup {NaN}

\* ------------------------------------------------------------- persistence
\* JSON.stringify of a number: a finite number is written in full (and read
\* back as the same number), NaN and the infinities are written as null, and
\* so is a null read from an earlier item
JsonNull == <<>>
StringifyNumber(p) ==
    IF p = JsonNull THEN JsonNull ELSE IF IsFinite(p) THEN p ELSE JsonNull

StringifyPoint(rp) ==
    [pixel |-> [x |-> StringifyNumber(rp.pixel.x), y |-> StringifyNumber(rp.pixel.y)],
     geo |-> [lat |-> StringifyNumber(rp.geo.lat), lng |-> StringifyNumber(rp.geo.lng)]]

StringifyMeasurement(m) ==
    [points |-> [i \in 1..Len(m.points) |->
                    [x |-> StringifyNumber(m.points[i].x),
                     y |-> StringifyNumber(m.points[i].y)]],
     unit |-> m.unit]

\* JSON.stringify of an annotation: a geo that pixelToGeo returned as null is
\* written as null, an annotation without geo has no such property
StringifyAnnotation(a) ==
    IF "geo" \notin DOMAIN a THEN a
    ELSE IF a.geo = NULL THEN a
    ELSE [a EXCEPT !.geo = [lat |-> StringifyNumber(@.lat), lng |-> StringifyNumber(@.lng)]]

\* the item saveData writes
saveData(self) ==
    [annotations |->
        [i \in 1..Len(self.annotations) |-> StringifyAnnotation(self.annotations[i])],
     referencePoints |->
        [i \in 1..Len(self.referencePoints) |-> StringifyPoint(self.referencePoints[i])],
     measurements |->
        [i \in 1..Len(self.measurements) |-> StringifyMeasurement(self.measurements[i])]]

\* the fields a new GISViewer() has before init()
Constructed ==
    [referencePoints |-> <<>>,
     isCalibrated |-> FALSE,
     transform |-> NULL,
     calibrationStatus |-> [text |-> "", points |-> 0],
     measurements |-> <<>>,
     annotations |-> <<>>]

ConstructedViewport ==
    [x |-> Zero, y |-> Zero, scale |-> One, minScale |-> <<1, 10>>, maxScale |-> Num(10)]

loadStoredData(self, stored) ==
    IF stored = NULL THEN self
    ELSE LET loaded == [self EXCEPT !.annotations = stored.annotations,
                                    !.referencePoints = stored.referencePoints,
                                    !.measurements = stored.measurements]
         IN  IF Len(loaded.referencePoints) >= 2
             THEN calculateTransform(loaded)
             ELSE loaded

\* init(): loadStoredData, then updateUI
init(self, stored) == updateUI(loadStoredData(self, stored))

\* the fields after a method returned "self" and saveData() wrote them
BecomesSaved(self) ==
    /\ Becomes(self)
    /\ localStorage' = saveData(self)

\* -------------------------------------------------------------------- view
MathMin(p, q) == IF IsNaN(p) \/ IsNaN(q) THEN NaN ELSE IF Lt(q, p) THEN q ELSE p
MathMax(p, q) == IF IsNaN(p) \/ IsNaN(q) THEN NaN ELSE IF Gt(q, p) THEN q ELSE p

\* the viewport that fits the image "img" into a w x h canvas (lines 272-281)
resetViewport(view, img, w, h) ==
    IF img = NULL THEN view
    ELSE LET scale == Mul(MathMin(Div(w, img.width), Div(h, img.height)), <<9, 10>>)
         IN  [view EXCEPT !.scale = scale,
                          !.x = Div(Sub(w, Mul(img.width, scale)), Num(2)),
                          !.y = Div(Sub(h, Mul(img.height, scale)), Num(2))]

screenToMap(view, screenX, screenY) ==
    [x |-> Div(Sub(screenX, view.x), view.scale),
     y |-> Div(Sub(screenY, view.y), view.scale)]

mapToScreen(view, mapX, mapY) ==
    [x |-> Add(Mul(mapX, view.scale), view.x),
     y |-> Add(Mul(mapY, view.scale), view.y)]

\* the markers drawn, and whether the dashed line between two points is drawn
drawMeasurementPoints(img, view, points) ==
    IF img = NULL \/ Len(points) = 0
    THEN [markers |-> <<>>, dashedLine |-> FALSE]
    ELSE [markers |-> [i \in 1..Len(points) |-> mapToScreen(view, points[i].x, points[i].y)],
          dashedLine |-> Len(points) = 2]

\* what render() draws: the placeholder, or the image and the measurement points
render(img, view, points) ==
    IF img = NULL
    THEN [placeholder |-> TRUE, image |-> NULL,
          measurement |-> [markers |-> <<>>, dashedLine |-> FALSE]]
    ELSE [placeholder |-> FALSE,
          image |-> [x |-> view.x, y |-> view.y, scale |-> view.scale],
          measurement |-> drawMeasurementPoints(img, view, points)]

\* the measurement calculateDistance adds for the two measurement points: the
\* unit is that of a geographic distance when both points have coordinates,
\* "pixels" otherwise (the distance text itself is not represented)
Measurement(self, p1, p2) ==
    [points |-> <<p1, p2>>,
     unit |-> IF /\ self.isCalibrated
                 /\ pixelToGeo(self, p1.x, p1.y) # NULL
                 /\ pixelToGeo(self, p2.x, p2.y) # NULL
              THEN "m/km" ELSE "pixels"]

\* calculateDistance up to saveData: the measurement is pushed
calculateDistance(self, points) ==
    IF Len(points) # 2 THEN self
    ELSE [self EXCEPT !.measurements = Append(@, Measurement(self, points[1], points[2]))]

\* ----------------------------------------------------------------- actions
\* inputs of the view and of the tools
DisplaySizes == {<<80, 60>>, <<60, 80>>}
DefaultDisplay == <<80, 60>>
ImageSizes == {<<4, 3>>, <<8, 6>>, <<80, 60>>, <<720, 540>>, <<800, 600>>}
Cursors == {<<0, 0>>, <<40, 30>>}
MeasureImages == {<<80, 60>>, <<40, 60>>}
Clicks == {<<4, 3>>, <<40, 30>>, <<58, 30>>}
Tools == {"pan", "calibrate", "annotate", "measure"}

Image(size) == [width |-> Num(size[1]), height |-> Num(size[2])]

\* the state new GISViewer() leaves in a container of the size "display", with
\* nothing stored
Started(display) ==
    /\ localStorage = NULL
    /\ pendingReferencePoint = NULL
    /\ calibrationModal = FALSE
    /\ Is(init(Constructed, NULL))
    /\ mapImage = NULL
    /\ displayWidth = Num(display[1])
    /\ displayHeight = Num(display[2])
    /\ viewport = ConstructedViewport
    /\ wheelEvents = 0
    /\ currentTool = "pan"
    /\ measurementPoints = <<>>
    /\ canvas = render(NULL, ConstructedViewport, <<>>)
    /\ geoJsonData = NULL
    /\ pendingAnnotation = NULL
    /\ annotationModal = FALSE

NoCall == system = NULL /\ returned = Pending
NoImport == importCall = NULL /\ importResult = Pending
\* no service worker is registered and the origin has no caches
NoWorker == caches = <<>> /\ serviceWorker = NULL

Init == Started(DefaultDisplay) /\ NoCall /\ NoImport /\ NoWorker

\* the page is loaded again: new GISViewer() over the stored item
Reload ==
    /\ Becomes(init(Constructed, localStorage))
    /\ pendingReferencePoint' = NULL
    /\ calibrationModal' = FALSE
    /\ mapImage' = NULL
    /\ viewport' = ConstructedViewport
    /\ currentTool' = "pan"
    /\ measurementPoints' = <<>>
    /\ canvas' = render(NULL, ConstructedViewport, <<>>)
    /\ geoJsonData' = NULL
    /\ pendingAnnotation' = NULL
    /\ annotationModal' = FALSE
    /\ UNCHANGED <<localStorage, displayWidth, displayHeight, wheelEvents,
                   callVars, importVars, workerVars>>

\* addReferencePoint(x, y): handleClick calls it with the map pixel of a click
\* of the calibrate tool
addReferencePoint(x, y) ==
    /\ pendingReferencePoint' = [x |-> x, y |-> y]
    /\ calibrationModal' = TRUE
    /\ UNCHANGED <<referencePoints, isCalibrated, transform, calibrationStatus,
                   measurements, annotations, localStorage,
                   viewVars, toolVars, callVars, importVars, noteVars, workerVars>>

\* mutant: the point is pushed and saved, calculateTransform is not called
confirmReferencePoint_noRefit(lat, lng) ==
    /\ calibrationModal
    /\ Len(referencePoints) < MaxPoints
    /\ IF IsNaN(lat) \/ IsNaN(lng)
       THEN UNCHANGED vars
       ELSE /\ BecomesSaved([This EXCEPT !.referencePoints =
                        Append(@, [pixel |-> pendingReferencePoint,
                                   geo |-> [lat |-> lat, lng |-> lng]])])
            /\ calibrationModal' = FALSE
            /\ canvas' = render(mapImage, viewport, measurementPoints)
            /\ UNCHANGED <<pendingReferencePoint, mapImage, displayWidth,
                           displayHeight, viewport, wheelEvents,
                           toolVars, callVars, importVars, noteVars, workerVars>>

\* mutant: only the latitude field is tested
confirmReferencePoint_latOnly(lat, lng) ==
    /\ calibrationModal
    /\ Len(referencePoints) < MaxPoints
    /\ IF IsNaN(lat)
       THEN UNCHANGED vars
       ELSE /\ BecomesSaved(calculateTransform(
                    [This EXCEPT !.referencePoints =
                        Append(@, [pixel |-> pendingReferencePoint,
                                   geo |-> [lat |-> lat, lng |-> lng]])]))
            /\ calibrationModal' = FALSE
            /\ canvas' = render(mapImage, viewport, measurementPoints)
            /\ UNCHANGED <<pendingReferencePoint, mapImage, displayWidth,
                           displayHeight, viewport, wheelEvents,
                           toolVars, callVars, importVars, noteVars, workerVars>>

\* the modal's Confirm button, with the parsed latitude and longitude fields
confirmReferencePoint(lat, lng) ==
    /\ calibrationModal
    /\ Len(referencePoints) < MaxPoints
    /\ IF IsNaN(lat) \/ IsNaN(lng)
       THEN UNCHANGED vars
       ELSE /\ BecomesSaved(calculateTransform(
                    [This EXCEPT !.referencePoints =
                        Append(@, [pixel |-> pendingReferencePoint,
                                   geo |-> [lat |-> lat, lng |-> lng]])]))
            /\ calibrationModal' = FALSE
            /\ canvas' = render(mapImage, viewport, measurementPoints)
            /\ UNCHANGED <<pendingReferencePoint, mapImage, displayWidth,
                           displayHeight, viewport, wheelEvents,
                           toolVars, callVars, importVars, noteVars, workerVars>>

\* the modal's Cancel button
cancelReferencePoint ==
    /\ calibrationModal
    /\ pendingReferencePoint' = NULL
    /\ calibrationModal' = FALSE
    /\ UNCHANGED <<referencePoints, isCalibrated, transform, calibrationStatus,
                   measurements, annotations, localStorage,
                   viewVars, toolVars, callVars, importVars, noteVars, workerVars>>

\* mutant: the reference points are dropped, flag and transform stay
resetCalibration_pointsOnly(confirmed) ==
    IF confirmed
    THEN /\ BecomesSaved(updateUI([This EXCEPT !.referencePoints = <<>>]))
         /\ canvas' = render(mapImage, viewport, measurementPoints)
         /\ UNCHANGED <<pendingReferencePoint, calibrationModal, mapImage,
                        displayWidth, displayHeight, viewport, wheelEvents,
                        toolVars, callVars, importVars, noteVars, workerVars>>
    ELSE UNCHANGED vars

\* mutant: the measurements are dropped with the reference points
resetCalibration_dropsMeasurements(confirmed) ==
    IF confirmed
    THEN /\ BecomesSaved(updateUI([This EXCEPT !.referencePoints = <<>>,
                                               !.measurements = <<>>,
                                               !.isCalibrated = FALSE,
                                               !.transform = NULL]))
         /\ canvas' = render(mapImage, viewport, measurementPoints)
         /\ UNCHANGED <<pendingReferencePoint, calibrationModal, mapImage,
                        displayWidth, displayHeight, viewport, wheelEvents,
                        toolVars, callVars, importVars, noteVars, workerVars>>
    ELSE UNCHANGED vars

\* the Reset Calibration button; "confirmed" is the answer to confirm()
resetCalibration(confirmed) ==
    IF confirmed
    THEN /\ BecomesSaved(updateUI([This EXCEPT !.referencePoints = <<>>,
                                               !.isCalibrated = FALSE,
                                               !.transform = NULL]))
         /\ canvas' = render(mapImage, viewport, measurementPoints)
         /\ UNCHANGED <<pendingReferencePoint, calibrationModal, mapImage,
                        displayWidth, displayHeight, viewport, wheelEvents,
                        toolVars, callVars, importVars, noteVars, workerVars>>
    ELSE UNCHANGED vars

\* the Clear All Data button
clearAllData(confirmed) ==
    IF confirmed
    THEN /\ Becomes(updateUI([This EXCEPT !.annotations = <<>>,
                                          !.referencePoints = <<>>,
                                          !.measurements = <<>>,
                                          !.isCalibrated = FALSE,
                                          !.transform = NULL]))
         /\ geoJsonData' = NULL
         /\ localStorage' = NULL
         /\ canvas' = render(mapImage, viewport, measurementPoints)
         /\ UNCHANGED <<pendingReferencePoint, calibrationModal, mapImage,
                        displayWidth, displayHeight, viewport, wheelEvents,
                        toolVars, callVars, importVars, pendingAnnotation,
                        annotationModal, workerVars>>
    ELSE UNCHANGED vars

Next ==
    \/ \E x \in PixelXs, y \in PixelYs : addReferencePoint(x, y)
    \/ \E lat \in ParsedInputs, lng \in ParsedInputs : confirmReferencePoint(lat, lng)
    \/ cancelReferencePoint
    \/ \E confirmed \in BOOLEAN : resetCalibration(confirmed)
    \/ \E confirmed \in BOOLEAN : clearAllData(confirmed)
    \/ Reload

Spec == Init /\ [][Next]_vars

\* ---------------------------------------------------------- the view alone
\* img.onload of handleMapUpload: the image is kept, the viewport is reset to
\* fit it, the canvas is drawn
handleMapUpload(size) ==
    /\ mapImage' = Image(size)
    /\ viewport' = resetViewport(viewport, Image(size), displayWidth, displayHeight)
    /\ canvas' = render(Image(size),
                     resetViewport(viewport, Image(size), displayWidth, displayHeight),
                     measurementPoints)
    /\ UNCHANGED <<referencePoints, isCalibrated, transform, calibrationStatus,
                   measurements, annotations, pendingReferencePoint,
                   calibrationModal,
                   localStorage, displayWidth, displayHeight, wheelEvents,
                   toolVars, callVars, importVars, noteVars, workerVars>>

\* the scale a wheel event asks for, held within [minScale, maxScale]
WheelScale(view, deltaYPositive) ==
    MathMax(view.minScale,
            MathMin(view.maxScale,
                    Mul(view.scale, IF deltaYPositive THEN <<9, 10>> ELSE <<11, 10>>)))

\* the viewport zoomed to newScale towards the cursor at (x, y)
ZoomTowards(view, newScale, x, y) ==
    [view EXCEPT !.x = Sub(x, Mul(Sub(x, view.x), Div(newScale, view.scale))),
                 !.y = Sub(y, Mul(Sub(y, view.y), Div(newScale, view.scale))),
                 !.scale = newScale]

\* a wheel event with the cursor at canvas position (x, y)
handleWheel(deltaYPositive, x, y) ==
    /\ wheelEvents < MaxWheel
    /\ wheelEvents' = wheelEvents + 1
    /\ IF WheelScale(viewport, deltaYPositive) # viewport.scale
       THEN /\ viewport' = ZoomTowards(viewport, WheelScale(viewport, deltaYPositive), x, y)
            /\ canvas' = render(mapImage,
                             ZoomTowards(viewport, WheelScale(viewport, deltaYPositive), x, y),
                             measurementPoints)
       ELSE UNCHANGED <<viewport, canvas>>
    /\ UNCHANGED <<referencePoints, isCalibrated, transform, calibrationStatus,
                   measurements, annotations, pendingReferencePoint,
                   calibrationModal,
                   localStorage, mapImage, displayWidth, displayHeight,
                   toolVars, callVars, importVars, noteVars, workerVars>>

\* the window's resize listener: setupCanvas() in the new container size, render()
windowResize(display) ==
    /\ displayWidth' = Num(display[1])
    /\ displayHeight' = Num(display[2])
    /\ canvas' = render(mapImage, viewport, measurementPoints)
    /\ UNCHANGED <<referencePoints, isCalibrated, transform, calibrationStatus,
                   measurements, annotations, pendingReferencePoint,
                   calibrationModal,
                   localStorage, mapImage, viewport, wheelEvents,
                   toolVars, callVars, importVars, noteVars, workerVars>>

ViewInit ==
    \E display \in DisplaySizes : Started(display) /\ NoCall /\ NoImport /\ NoWorker

ViewNext ==
    \/ \E size \in ImageSizes : handleMapUpload(size)
    \/ \E deltaYPositive \in BOOLEAN, cursor \in Cursors :
          handleWheel(deltaYPositive, Num(cursor[1]), Num(cursor[2]))
    \/ \E display \in DisplaySizes : windowResize(display)

ViewSpec == ViewInit /\ [][ViewNext]_vars

\* ----------------------------------------------------------- annotations
\* the trimmed text of the annotation label field
Labels == {"", "Mill"}
\* the files of the GeoJSON upload: text JSON.parse reads, or text it rejects
GeoJsonFiles ==
    {[valid |-> TRUE, data |-> [type |-> "FeatureCollection", features |-> <<>>]],
     [valid |-> FALSE]}

\* addAnnotation(x, y): handleClick calls it with the map pixel of a click of
\* the annotate tool
addAnnotation(x, y) ==
    /\ pendingAnnotation' = [x |-> x, y |-> y]
    /\ annotationModal' = TRUE
    /\ UNCHANGED <<referencePoints, isCalibrated, transform, calibrationStatus,
                   measurements, annotations, pendingReferencePoint,
                   calibrationModal, localStorage, viewVars, toolVars, callVars,
                   importVars, geoJsonData, workerVars>>

\* mutant: geo is set whether the viewer is calibrated or not
Annotation_alwaysGeo(self, pixel, label) ==
    [pixel |-> pixel, label |-> label, geo |-> pixelToGeo(self, pixel.x, pixel.y)]

\* the annotation confirmAnnotation builds (id, description and timestamp
\* are left out): geo is set only when isCalibrated
Annotation(self, pixel, label) ==
    IF self.isCalibrated
    THEN [pixel |-> pixel, label |-> label, geo |-> pixelToGeo(self, pixel.x, pixel.y)]
    ELSE [pixel |-> pixel, label |-> label]

\* the annotation modal's Confirm button, with the trimmed label
confirmAnnotation(label) ==
    /\ annotationModal
    /\ Len(annotations) < MaxAnnotations
    /\ IF label = ""
       THEN UNCHANGED vars
       ELSE /\ BecomesSaved([This EXCEPT !.annotations =
                                Append(@, Annotation(This, pendingAnnotation, label))])
            /\ annotationModal' = FALSE
            /\ canvas' = render(mapImage, viewport, measurementPoints)
            /\ UNCHANGED <<pendingReferencePoint, calibrationModal, mapImage,
                           displayWidth, displayHeight, viewport, wheelEvents,
                           toolVars, callVars, importVars, geoJsonData,
                           pendingAnnotation, workerVars>>

\* the annotation modal's Cancel button
cancelAnnotation ==
    /\ annotationModal
    /\ pendingAnnotation' = NULL
    /\ annotationModal' = FALSE
    /\ UNCHANGED <<referencePoints, isCalibrated, transform, calibrationStatus,
                   measurements, annotations, pendingReferencePoint,
                   calibrationModal, localStorage, viewVars, toolVars, callVars,
                   importVars, geoJsonData, workerVars>>

\* reader.onload of handleGeoJSONUpload: the parsed file is kept and drawn; a
\* file JSON.parse rejects changes nothing
handleGeoJSONUpload(file) ==
    IF file.valid
    THEN /\ geoJsonData' = file.data
         /\ canvas' = render(mapImage, viewport, measurementPoints)
         /\ UNCHANGED <<referencePoints, isCalibrated, transform, calibrationStatus,
                        measurements, annotations, pendingReferencePoint,
                        calibrationModal, localStorage, mapImage, displayWidth,
                        displayHeight, viewport, wheelEvents, toolVars, callVars,
                        importVars, pendingAnnotation, annotationModal, workerVars>>
    ELSE UNCHANGED vars

\* ------------------------------------------------------ the measure tool
setTool(tool) ==
    /\ currentTool' = tool
    /\ measurementPoints' = IF tool # "measure" THEN <<>> ELSE measurementPoints
    /\ UNCHANGED <<referencePoints, isCalibrated, transform, calibrationStatus,
                   measurements, annotations, pendingReferencePoint,
                   calibrationModal,
                   localStorage, viewVars, callVars, importVars, noteVars, workerVars>>

\* mutant: the two points are kept after the measurement is saved
SecondMeasurementPoint_keepsPoints(points) ==
    /\ Len(measurements) < MaxMeasurements
    /\ BecomesSaved(calculateDistance(This, points))
    /\ measurementPoints' = points
    /\ canvas' = render(mapImage, viewport, points)

\* the second point of a measurement: the distance is calculated and saved,
\* the points are dropped, and only then the canvas is drawn
SecondMeasurementPoint(points) ==
    /\ Len(measurements) < MaxMeasurements
    /\ BecomesSaved(calculateDistance(This, points))
    /\ measurementPoints' = <<>>
    /\ canvas' = render(mapImage, viewport, <<>>)

FirstMeasurementPoint(points) ==
    /\ measurementPoints' = points
    /\ canvas' = render(mapImage, viewport, points)
    /\ UNCHANGED <<referencePoints, isCalibrated, transform, calibrationStatus,
                   measurements, annotations, localStorage>>

addMeasurementPoint(x, y) ==
    /\ IF Len(measurementPoints) + 1 = 2
       THEN SecondMeasurementPoint(Append(measurementPoints, [x |-> x, y |-> y]))
       ELSE FirstMeasurementPoint(Append(measurementPoints, [x |-> x, y |-> y]))
    /\ UNCHANGED <<pendingReferencePoint, calibrationModal, mapImage,
                   displayWidth, displayHeight, viewport, wheelEvents,
                   currentTool, callVars, importVars, noteVars, workerVars>>

\* a click on the canvas at (x, y): nothing without a map, else the tool's method
\* on the map pixel under the click
handleClick(x, y) ==
    IF mapImage = NULL THEN UNCHANGED vars
    ELSE IF currentTool = "calibrate"
    THEN addReferencePoint(screenToMap(viewport, x, y).x, screenToMap(viewport, x, y).y)
    ELSE IF currentTool = "annotate"
    THEN addAnnotation(screenToMap(viewport, x, y).x, screenToMap(viewport, x, y).y)
    ELSE IF currentTool = "measure"
    THEN addMeasurementPoint(screenToMap(viewport, x, y).x, screenToMap(viewport, x, y).y)
    ELSE UNCHANGED vars

MeasureNext ==
    \/ \E size \in MeasureImages : handleMapUpload(size)
    \/ \E tool \in Tools : setTool(tool)
    \/ \E click \in Clicks : handleClick(Num(click[1]), Num(click[2]))

MeasureSpec == Init /\ [][MeasureNext]_vars

\* ------------------------------------------- the data the viewer keeps
\* one map, one click position, every tool, the three dialogs, the overlay
\* upload and the two reset buttons
FrameImages == {<<80, 60>>}
FrameClicks == {<<4, 3>>, <<40, 30>>}
\* the latitude field typed in the modal, parsed
FrameInputs == {One, NaN}

FrameNext ==
    \/ \E size \in FrameImages : handleMapUpload(size)
    \/ \E tool \in Tools : setTool(tool)
    \/ \E click \in FrameClicks : handleClick(Num(click[1]), Num(click[2]))
    \/ \E lat \in FrameInputs : confirmReferencePoint(lat, One)
    \/ \E label \in Labels : confirmAnnotation(label)
    \/ cancelAnnotation
    \/ \E file \in GeoJsonFiles : handleGeoJSONUpload(file)
    \/ \E confirmed \in BOOLEAN : resetCalibration(confirmed)
    \/ \E confirmed \in BOOLEAN : clearAllData(confirmed)

FrameSpec == Init /\ [][FrameNext]_vars

\* -------------------------------------- annotations and the calibration
SurveyedPixels ==
    {[x |-> Zero, y |-> Zero], [x |-> Num(2), y |-> One], [x |-> Zero, y |-> One]}
AnnotatedPixels == {[x |-> Num(2), y |-> One]}

AnnotateNext ==
    \/ \E p \in SurveyedPixels : addReferencePoint(p.x, p.y)
    \/ \E geo \in ParsedInputs : confirmReferencePoint(geo, geo)
    \/ cancelReferencePoint
    \/ \E p \in AnnotatedPixels : addAnnotation(p.x, p.y)
    \/ \E label \in Labels : confirmAnnotation(label)
    \/ cancelAnnotation
    \/ \E confirmed \in BOOLEAN : resetCalibration(confirmed)
    \/ Reload

AnnotateSpec == Init /\ [][AnnotateNext]_vars

\* ------------------------------------------ a call of gaussianElimination
Entries == {Num(i) : i \in (0 - MaxEntry)..MaxEntry}
RightHandSides == {Num(i) : i \in 0..MaxEntry}

\* the fields and the view of a new GISViewer() in the default container, before init()
ConstructedView ==
    /\ pendingReferencePoint = NULL
    /\ calibrationModal = FALSE
    /\ mapImage = NULL
    /\ displayWidth = Num(DefaultDisplay[1])
    /\ displayHeight = Num(DefaultDisplay[2])
    /\ viewport = ConstructedViewport
    /\ wheelEvents = 0
    /\ currentTool = "pan"
    /\ measurementPoints = <<>>
    /\ canvas = NULL
    /\ geoJsonData = NULL
    /\ pendingAnnotation = NULL
    /\ annotationModal = FALSE

SolverInit ==
    /\ ConstructedView
    /\ localStorage = NULL
    /\ Is(Constructed)
    /\ \E n \in 2..MaxDim :
          \E A \in [1..n -> [1..n -> Entries]], b \in [1..n -> RightHandSides] :
              system = [A |-> A, b |-> b]
    /\ returned = Pending
    /\ NoImport
    /\ NoWorker

\* gaussianElimination(A, b) runs on the system and returns
gaussianEliminationCall ==
    /\ system # NULL
    /\ returned = Pending
    /\ returned' = gaussianElimination(system.A, system.b)
    /\ UNCHANGED <<referencePoints, isCalibrated, transform, calibrationStatus,
                   measurements, annotations, pendingReferencePoint,
                   calibrationModal,
                   localStorage, viewVars, toolVars, system, importVars, noteVars, workerVars>>

SolverNext == gaussianEliminationCall

SolverSpec == SolverInit /\ [][SolverNext]_vars

\* -------------------------------------- a call of calculateAffineTransform
FitPixels == {[x |-> Num(i), y |-> Num(j)] : i \in 0..MaxFitPix, j \in 0..MaxFitPix}
Slopes == {Num(-1), <<1, 2>>}
\* the affine maps that generate coordinates: latitude with any two slopes
AffineMaps == [a : Slopes, b : Slopes, c : {One}, d : {Num(2)}, e : {<<-1, 3>>}, f : {Zero}]

\* the latitude and longitude the map gives the pixel p
ApplyMap(map, p) ==
    [lat |-> Add(Add(Mul(map.a, p.x), Mul(map.b, p.y)), map.c),
     lng |-> Add(Add(Mul(map.d, p.x), Mul(map.e, p.y)), map.f)]

\* reference points at the pixels ps whose coordinates the affine map generates
GeneratedPoints(ps, map) ==
    [i \in 1..Len(ps) |-> [pixel |-> ps[i], geo |-> ApplyMap(map, ps[i])]]

\* reference points at the pixels ps with the coordinates gs
SurveyedPoints(ps, gs) ==
    [i \in 1..Len(ps) |-> [pixel |-> ps[i], geo |-> gs[i]]]

\* the lists fitted: three points with any latitudes (each longitude is the
\* next point's latitude), or three to MaxFitPoints points with the
\* coordinates an affine map gives them
FitInput(pts) ==
    \/ \E ps \in [1..3 -> FitPixels], lats \in [1..3 -> GeoCoords] :
          pts = SurveyedPoints(ps, [i \in 1..3 |-> [lat |-> lats[i], lng |-> lats[(i % 3) + 1]]])
    \/ \E n \in 3..MaxFitPoints :
          \E ps \in [1..n -> FitPixels], map \in AffineMaps :
              pts = GeneratedPoints(ps, map)

\* loadStoredData has read the stored points and is about to fit them
FitInit ==
    /\ ConstructedView
    /\ FitInput(referencePoints)
    /\ isCalibrated = FALSE
    /\ transform = NULL
    /\ calibrationStatus = Constructed.calibrationStatus
    /\ measurements = <<>>
    /\ annotations = <<>>
    /\ localStorage = saveData(This)
    /\ system = NULL
    /\ returned = Pending
    /\ NoImport
    /\ NoWorker

\* calculateAffineTransform runs; "returned" keeps what its two calls of
\* leastSquares returned
calculateAffineTransformCall ==
    /\ system = NULL
    /\ returned = Pending
    /\ Becomes(calculateAffineTransform(This))
    /\ returned' =
          [latCoeffs |-> leastSquares(DesignMatrix(referencePoints),
                                      LatColumn(referencePoints)),
           lngCoeffs |-> leastSquares(DesignMatrix(referencePoints),
                                      LngColumn(referencePoints))]
    /\ UNCHANGED <<pendingReferencePoint, calibrationModal, localStorage,
                   viewVars, toolVars, system, importVars, noteVars, workerVars>>

FitNext == calculateAffineTransformCall

FitSpec == FitInit /\ [][FitNext]_vars

\* ------------------------------------------------------- GeodesicDistance
\* haversineDistance is applied to points given in whole degrees.  Its
\* numbers are exact: a sine or cosine is a number r + s * sqrt(3) with r and s
\* rational, kept as [r, s]; an angle is kept as its multiple of Math.PI / 180.
Surd(r, s) == [r |-> r, s |-> s]
Rational(p) == Surd(p, Zero)
SurdAdd(u, v) == Surd(Add(u.r, v.r), Add(u.s, v.s))
SurdSub(u, v) == Surd(Sub(u.r, v.r), Sub(u.s, v.s))
SurdMul(u, v) ==
    Surd(Add(Mul(u.r, v.r), Mul(Num(3), Mul(u.s, v.s))),
         Add(Mul(u.r, v.s), Mul(u.s, v.r)))

\* x * Math.PI / 180, and x / 2 of an angle
Angle(degrees) == [piOver180 |-> degrees]
Half(angle) == Angle(Div(angle.piOver180, Num(2)))

\* Math.sin at the multiples of 30 degrees
SineTable ==
    [d \in {30 * k : k \in 0..11} |->
        CASE d \in {0, 180} -> Rational(Zero)
          [] d \in {30, 150} -> Rational(<<1, 2>>)
          [] d \in {60, 120} -> Surd(Zero, <<1, 2>>)
          [] d = 90 -> Rational(One)
          [] d \in {210, 330} -> Rational(<<-1, 2>>)
          [] d \in {240, 300} -> Surd(Zero, <<-1, 2>>)
          [] d = 270 -> Rational(Num(-1))]

MathSin(angle) == SineTable[angle.piOver180[1] % 360]
MathCos(angle) == SineTable[(angle.piOver180[1] + 90) % 360]

\* 2 * Math.atan2(Math.sqrt(a), Math.sqrt(1 - a)): the angle whose half has
\* the sine sqrt(a), in closed form where it has one; elsewhere it is kept as
\* the a that determines it (the angle grows strictly with a on [0, 1])
CentralAngle(a, oneMinusA) ==
    IF a = Rational(Zero) THEN Angle(Zero)
    ELSE IF a = Rational(<<1, 4>>) THEN Angle(Num(60))
    ELSE IF a = Rational(<<1, 2>>) THEN Angle(Num(90))
    ELSE IF a = Rational(<<3, 4>>) THEN Angle(Num(120))
    ELSE IF a = Rational(One) THEN Angle(Num(180))
    ELSE [sqrtOf |-> a, over |-> oneMinusA]

\* R * c, in metres: a multiple of Math.PI / 180 where c is one
Metres(R, c) ==
    IF "piOver180" \in DOMAIN c THEN Angle(Mul(R, c.piOver180))
    ELSE [times |-> R, angle |-> c]

\* mutant: the cosine of the first latitude is used twice
haversineDistance_firstLatitude(lat1, lng1, lat2, lng2) ==
    LET R == Num(6371000)
        dLat == Angle(Sub(lat2, lat1))
        dLng == Angle(Sub(lng2, lng1))
        a == SurdAdd(SurdMul(MathSin(Half(dLat)), MathSin(Half(dLat))),
                     SurdMul(SurdMul(SurdMul(MathCos(Angle(lat1)), MathCos(Angle(lat1))),
                                     MathSin(Half(dLng))),
                             MathSin(Half(dLng))))
        c == CentralAngle(a, SurdSub(Rational(One), a))
    IN  Metres(R, c)

haversineDistance(lat1, lng1, lat2, lng2) ==
    LET R == Num(6371000)
        dLat == Angle(Sub(lat2, lat1))
        dLng == Angle(Sub(lng2, lng1))
        a == SurdAdd(SurdMul(MathSin(Half(dLat)), MathSin(Half(dLat))),
                     SurdMul(SurdMul(SurdMul(MathCos(Angle(lat1)), MathCos(Angle(lat2))),
                                     MathSin(Half(dLng))),
                             MathSin(Half(dLng))))
        c == CentralAngle(a, SurdSub(Rational(One), a))
    IN  Metres(R, c)

\* the latitudes and longitudes of the points, in degrees
Latitudes == {Num(-60), Zero, Num(60)}
Longitudes == {Num(-120), Zero, Num(60), Num(180)}

DistanceInit ==
    /\ ConstructedView
    /\ localStorage = NULL
    /\ Is(Constructed)
    /\ \E lat1 \in Latitudes, lng1 \in Longitudes :
          \E lat2 \in Latitudes, lng2 \in Longitudes :
              system = [lat1 |-> lat1, lng1 |-> lng1, lat2 |-> lat2, lng2 |-> lng2]
    /\ returned = Pending
    /\ NoImport
    /\ NoWorker

\* haversineDistance(lat1, lng1, lat2, lng2) runs on the two points and returns
haversineDistanceCall ==
    /\ system # NULL
    /\ returned = Pending
    /\ returned' = haversineDistance(system.lat1, system.lng1, system.lat2, system.lng2)
    /\ UNCHANGED <<referencePoints, isCalibrated, transform, calibrationStatus,
                   measurements, annotations, pendingReferencePoint,
                   calibrationModal,
                   localStorage, viewVars, toolVars, system, importVars, noteVars, workerVars>>

DistanceNext == haversineDistanceCall

DistanceSpec == DistanceInit /\ [][DistanceNext]_vars
\* ---------------------------------------------------- service worker (sw.js)
CACHE_NAME == "gis-viewer-v1.0.0"
urlsToCache ==
    <<"./", "./index.html", "./demo.html", "./styles.css", "./gis-viewer.js",
      "./sample-data.geojson", "./README.md", "./manifest.json">>

AppShell == {urlsToCache[i] : i \in 1..Len(urlsToCache)}
\* requests whose destination is 'document'
Documents == {"./", "./index.html", "./demo.html"}
\* the requests the pages make: the app shell and one more resource
RequestUrls == AppShell \cup {"./icons/icon-192x192.png"}
\* caches an earlier version or other code of the origin may have left
OldCacheNames == {"gis-viewer-v0.9.0", "tiles"}
\* what the network does with a request: a 200 'basic' response, another
\* response, or no response (offline)
NetworkOutcomes == {"ok", "notOk", "offline"}
\* the URLs whose request fails while cache.addAll runs
AddAllFailures == {{}, {"./README.md"}, AppShell}

\* a worker in the given phase; keys is what caches.keys() gave the activate
\* handler, deleted the caches.delete() promises that have resolved, response
\* what the last fetch event was answered with
Worker(phase, keys, deleted, response) ==
    [phase |-> phase, keys |-> keys, deleted |-> deleted, response |-> response]

\* caches.open(name): the cache is created when it does not exist
Opened(storage, name) ==
    IF name \in DOMAIN storage THEN storage
    ELSE [n \in DOMAIN storage \cup {name} |-> IF n = name THEN {} ELSE storage[n]]

\* cache.put / cache.addAll of the URLs into the cache "name"
Put(storage, name, urls) ==
    [Opened(storage, name) EXCEPT ![name] = @ \cup urls]

\* caches.delete(name)
Deleted(storage, name) == [n \in DOMAIN storage \ {name} |-> storage[n]]

\* caches.match(url): some cache holds a response for the URL
Matches(storage, url) == \E n \in DOMAIN storage : url \in storage[n]

\* the script is registered: the origin's CacheStorage holds what earlier
\* code left in it
WorkerInit ==
    /\ Started(DefaultDisplay)
    /\ NoCall
    /\ NoImport
    /\ \E names \in SUBSET (OldCacheNames \cup {CACHE_NAME}) :
          caches = [n \in names |-> {"./index.html"}]
    /\ serviceWorker = Worker("parsed", {}, {}, NULL)

\* install listener: caches.open(CACHE_NAME), cache.addAll(urlsToCache), which
\* stores all of them or, when a request fails, none; the catch logs the
\* failure, so the promise given to waitUntil is fulfilled either way
installEvent(failed) ==
    /\ serviceWorker # NULL
    /\ serviceWorker.phase = "parsed"
    /\ caches' = IF failed = {} THEN Put(caches, CACHE_NAME, AppShell)
                 ELSE Opened(caches, CACHE_NAME)
    /\ serviceWorker' = [serviceWorker EXCEPT !.phase = "installed"]
    /\ UNCHANGED <<referencePoints, isCalibrated, transform, calibrationStatus,
                   measurements, annotations, pendingReferencePoint,
                   calibrationModal, localStorage, viewVars, toolVars, callVars,
                   importVars, noteVars>>

\* mutant: every cache name is handed to caches.delete
OldCaches_all(keys) == keys

\* activate listener: the names that are mapped to caches.delete
OldCaches(keys) == {cacheName \in keys : cacheName # CACHE_NAME}

\* activate listener: caches.keys() has resolved, the deletions are started
activateEvent ==
    /\ serviceWorker # NULL
    /\ serviceWorker.phase = "installed"
    /\ serviceWorker' = [serviceWorker EXCEPT !.phase = "activating",
                                              !.keys = DOMAIN caches]
    /\ UNCHANGED <<referencePoints, isCalibrated, transform, calibrationStatus,
                   measurements, annotations, pendingReferencePoint,
                   calibrationModal, localStorage, viewVars, toolVars, callVars,
                   importVars, noteVars, caches>>

\* one caches.delete(cacheName) of the activate listener resolves
cacheDeleted(cacheName) ==
    /\ serviceWorker # NULL
    /\ serviceWorker.phase = "activating"
    /\ cacheName \in OldCaches(serviceWorker.keys) \ serviceWorker.deleted
    /\ caches' = Deleted(caches, cacheName)
    /\ serviceWorker' = [serviceWorker EXCEPT !.deleted = @ \cup {cacheName}]
    /\ UNCHANGED <<referencePoints, isCalibrated, transform, calibrationStatus,
                   measurements, annotations, pendingReferencePoint,
                   calibrationModal, localStorage, viewVars, toolVars, callVars,
                   importVars, noteVars>>

\* Promise.all of the deletions resolves, and with it the promise given to
\* waitUntil
activateResolved ==
    /\ serviceWorker # NULL
    /\ serviceWorker.phase = "activating"
    /\ serviceWorker.deleted = OldCaches(serviceWorker.keys)
    /\ serviceWorker' = [serviceWorker EXCEPT !.phase = "activated"]
    /\ UNCHANGED <<referencePoints, isCalibrated, transform, calibrationStatus,
                   measurements, annotations, pendingReferencePoint,
                   calibrationModal, localStorage, viewVars, toolVars, callVars,
                   importVars, noteVars, caches>>

\* what respondWith is given for the request: the cached response; else the
\* network's response; else, offline, the cached index.html for a document
\* and nothing for anything else
Response(storage, url, network) ==
    IF Matches(storage, url) THEN [url |-> url, from |-> "cache"]
    ELSE IF network # "offline" THEN [url |-> url, from |-> "network"]
    ELSE IF url \in Documents /\ Matches(storage, "./index.html")
    THEN [url |-> url, from |-> "offline page"]
    ELSE [url |-> url, from |-> "nothing"]

\* fetch listener; a 200 'basic' response of the network is also put into the
\* cache CACHE_NAME
fetchEvent(url, network) ==
    /\ serviceWorker # NULL
    /\ serviceWorker.phase = "activated"
    /\ serviceWorker' = [serviceWorker EXCEPT !.response = Response(caches, url, network)]
    /\ caches' = IF ~Matches(caches, url) /\ network = "ok"
                 THEN Put(caches, CACHE_NAME, {url})
                 ELSE caches
    /\ UNCHANGED <<referencePoints, isCalibrated, transform, calibrationStatus,
                   measurements, annotations, pendingReferencePoint,
                   calibrationModal, localStorage, viewVars, toolVars, callVars,
                   importVars, noteVars>>

WorkerNext ==
    \/ \E failed \in AddAllFailures : installEvent(failed)
    \/ activateEvent
    \/ \E cacheName \in OldCacheNames \cup {CACHE_NAME} : cacheDeleted(cacheName)
    \/ activateResolved
    \/ \E url \in RequestUrls, network \in NetworkOutcomes : fetchEvent(url, network)

WorkerSpec == WorkerInit /\ [][WorkerNext]_vars


\* --------------------------------------------------- HistoricalMapImporter
\* the configuration files fetchImageMapperConfig asks for, in its order
ConfigFiles == <<"CONFIG.JS", "INTEGRATION.JS", "DATA.JS">>

\* the page addresses, as url.split('/') gives them
Urls ==
    {<<"https:", "", "www.iijg.org", "maps", "INDEX.HTML">>,
     <<"https:", "", "maps.example.org", "atlas", "INDEX.HTML">>}

\* url.includes('iijg.org') || url.includes('jewish'), on these addresses
IsJewishPopulationSite(url) == \E i \in 1..Len(url) : url[i] = "www.iijg.org"

extractBaseUrl(url) == SubSeq(url, 1, Len(url) - 1)

\* what a fetch comes to: the promise is rejected (network, CORS), or it
\* resolves to a response that is not ok, or to an ok response with a body
Rejected == [settled |-> "rejected"]
NotOk == [settled |-> "resolved", ok |-> FALSE]
OkBody(body) == [settled |-> "resolved", ok |-> TRUE, body |-> body]
FetchFailed(outcome) == outcome.settled = "rejected" \/ ~outcome.ok

\* JavaScript values: numbers, arrays, objects with a "coordinates" property, null
JsNumber(i) == [type |-> "number", value |-> Num(i)]
JsArray(items) == [type |-> "array", items |-> items]
JsArea(coordinates) == [type |-> "object", coordinates |-> coordinates]
JsNull == [type |-> "null"]
JsPair(i, j) == JsArray(<<JsNumber(i), JsNumber(j)>>)

\* bodies of a configuration file: the "var name = [...];" declarations in it
ConfigBodies ==
    {<<>>,
     <<[name |-> "points", expr |-> JsArray(<<JsPair(21, 52), JsPair(19, 47)>>)]>>,
     <<[name |-> "areas",
        expr |-> JsArray(<<JsArea(JsArray(<<JsPair(0, 0), JsPair(1, 0), JsPair(1, 1)>>))>>)]>>,
     <<[name |-> "zones", expr |-> JsArray(<<JsNull>>)]>>}

\* bodies of the page: its title and, per script, the coordinate lists in it
PageBodies ==
    {[title |-> "Map", scripts |-> <<>>],
     [title |-> "Map", scripts |-> <<<<<<Num(21), Num(52)>>>>>>]}

ConfigOutcomes == {Rejected, NotOk} \cup {OkBody(body) : body \in ConfigBodies}
PageOutcomes == {Rejected, NotOk} \cup {OkBody(body) : body \in PageBodies}

\* how a run ends: with the features collected, or with an exception thrown
Collected(features) == [thrown |-> FALSE, features |-> features]
Threw == [thrown |-> TRUE, features |-> <<>>]

\* an "Import failed" error thrown instead of a result
ImportFailed == [error |-> "Import failed"]

\* safeEval of an array literal is the array JSON.parse reads from it
safeEval(expr) == expr

\* the object parseJSConfig extracts: one key per declaration, in their order
parseJSConfig(jsContent) ==
    [i \in 1..Len(jsContent) |->
        [key |-> jsContent[i].name, value |-> safeEval(jsContent[i].expr)]]

IsNumberArray(item) ==
    /\ item.type = "array"
    /\ Len(item.items) >= 2
    /\ \A k \in 1..Len(item.items) : item.items[k].type = "number"

looksLikeCoordinateData(value) ==
    /\ value.type = "array"
    /\ \A k \in 1..Len(value.items) : IsNumberArray(value.items[k])

\* typeof item === 'object' && item.hasOwnProperty('coordinates')
HasAreaProperty(item) == item.type = "object" /\ "coordinates" \in DOMAIN item

\* value.some(...) reaches a null item: typeof null is 'object' and
\* null.hasOwnProperty throws a TypeError
looksLikeAreaDataThrows(value) ==
    /\ value.type = "array"
    /\ \E k \in 1..Len(value.items) :
          /\ value.items[k].type = "null"
          /\ \A j \in 1..(k - 1) : ~HasAreaProperty(value.items[j])

looksLikeAreaData(value) ==
    /\ value.type = "array"
    /\ \E k \in 1..Len(value.items) : HasAreaProperty(value.items[k])

Feature(properties, geometryType, coordinates) ==
    [type |-> "Feature", properties |-> properties,
     geometry |-> [type |-> geometryType, coordinates |-> coordinates]]

ImportedProperties(name, source) ==
    [name |-> name, imported |-> TRUE, source |-> source]

\* the point feature of an array of coordinate pairs: its first pair
createFeatureFromData(name, data) ==
    IF Len(data.items) > 0 /\ data.items[1].type = "array"
    THEN <<Feature(ImportedProperties(name, "imagemapper"), "Point", data.items[1])>>
    ELSE <<>>

RECURSIVE createAreaFeatures(_, _, _)
createAreaFeatures(name, data, index) ==
    IF index > Len(data.items) THEN <<>>
    ELSE (IF HasAreaProperty(data.items[index])
          THEN <<Feature(ImportedProperties(<<name, index - 1>>, "imagemapper-area"),
                         IF Len(data.items[index].coordinates.items) > 2
                         THEN "Polygon" ELSE "Point",
                         IF Len(data.items[index].coordinates.items) > 2
                         THEN <<data.items[index].coordinates>>
                         ELSE data.items[index].coordinates)>>
          ELSE <<>>)
         \o createAreaFeatures(name, data, index + 1)

\* the features one key of a configuration gives
FeaturesOfKey(key, value) ==
    IF looksLikeAreaDataThrows(value) THEN Threw
    ELSE Collected(
            (IF looksLikeCoordinateData(value) THEN createFeatureFromData(key, value)
             ELSE <<>>)
            \o (IF looksLikeAreaData(value) THEN createAreaFeatures(key, value, 1)
                ELSE <<>>))

\* one run followed by another
Followed(run, more) ==
    IF run.thrown \/ more.thrown THEN Threw ELSE Collected(run.features \o more.features)

RECURSIVE FeaturesOfKeys(_, _)
FeaturesOfKeys(data, k) ==
    IF k > Len(data) THEN Collected(<<>>)
    ELSE Followed(FeaturesOfKey(data[k].key, data[k].value), FeaturesOfKeys(data, k + 1))

RECURSIVE FeaturesOfFiles(_, _)
FeaturesOfFiles(configData, k) ==
    IF k > Len(configData) THEN Collected(<<>>)
    ELSE Followed(FeaturesOfKeys(configData[k].data, 1), FeaturesOfFiles(configData, k + 1))

\* a FeatureCollection of the features, the error when an exception was thrown
\* (the timestamp of the metadata is left out)
CollectionOf(run) ==
    IF run.thrown THEN ImportFailed
    ELSE [type |-> "FeatureCollection", features |-> run.features,
          metadata |-> [type |-> "imagemapper-import",
                        source |-> "ImageMapper configuration"]]

processImageMapperData(configData) == CollectionOf(FeaturesOfFiles(configData, 1))

\* one point feature per coordinate list of two or more numbers
RECURSIVE extractDataFromScript(_, _)
extractDataFromScript(scriptContent, k) ==
    IF k > Len(scriptContent) THEN <<>>
    ELSE (IF Len(scriptContent[k]) >= 2
          THEN <<Feature([imported |-> TRUE, source |-> "script-extraction"], "Point",
                         <<scriptContent[k][1], scriptContent[k][2]>>)>>
          ELSE <<>>)
         \o extractDataFromScript(scriptContent, k + 1)

RECURSIVE FeaturesOfScripts(_, _)
FeaturesOfScripts(scripts, k) ==
    IF k > Len(scripts) THEN <<>>
    ELSE extractDataFromScript(scripts[k], 1) \o FeaturesOfScripts(scripts, k + 1)

parseHTMLForData(html, sourceUrl) ==
    [type |-> "historical-map-data", source |-> sourceUrl, title |-> html.title,
     features |-> FeaturesOfScripts(html.scripts, 1)]

generateManualImportInstructions(url) ==
    [type |-> "manual-import-required", source |-> url,
     instructions |-> [title |-> "Manual Import Required",
                       hasSampleData |-> IsJewishPopulationSite(url)]]

\* extractDataFromPage once its fetch has settled
extractDataFromPage(url, outcome) ==
    IF FetchFailed(outcome) THEN generateManualImportInstructions(url)
    ELSE parseHTMLForData(outcome.body, url)

\* the result importJewishPopulationData returns: the features of an imported
\* result are marked as Jewish population data
MarkFeature(feature) ==
    [feature EXCEPT !.properties =
        [key \in DOMAIN @ \cup {"category", "historical", "timeframe", "source"} |->
            IF key = "category" THEN "jewish-population"
            ELSE IF key = "historical" THEN TRUE
            ELSE IF key = "timeframe" THEN "1900-1930"
            ELSE IF key = "source" THEN "International Institute for Jewish Genealogy"
            ELSE @[key]]]

SampleFeature(name, country, population1900, population1930, lng, lat) ==
    Feature([name |-> name, country |-> country,
             population_1900 |-> population1900, population_1930 |-> population1930,
             category |-> "jewish-population", historical |-> TRUE],
            "Point", <<Norm(lng, 10000), Norm(lat, 10000)>>)

createSampleJewishPopulationData ==
    [type |-> "FeatureCollection",
     metadata |-> [title |-> "Jewish Populations in Europe: 1900 and 1930",
                   source |-> "International Institute for Jewish Genealogy"],
     features |-> <<
       SampleFeature("Warsaw", "Poland", 254000, 353000, 210122, 522297),
       SampleFeature("Budapest", "Hungary", 166000, 204000, 190402, 474979),
       SampleFeature("Vienna", "Austria", 147000, 191000, 163738, 482082),
       SampleFeature("Berlin", "Germany", 92000, 160000, 134050, 525200),
       SampleFeature("Lodz", "Poland", 98000, 202000, 194514, 517592),
       SampleFeature("Prague", "Czechoslovakia", 25000, 35000, 144378, 500755),
       SampleFeature("Krakow", "Poland", 25000, 56000, 199450, 500647),
       SampleFeature("Lviv", "Poland", 44000, 98000, 240232, 498383),
       SampleFeature("Bucharest", "Romania", 40000, 74000, 261025, 444268),
       SampleFeature("Amsterdam", "Netherlands", 51000, 60000, 49041, 523676),
       SampleFeature("Frankfurt", "Germany", 21000, 26000, 86821, 501109),
       SampleFeature("Hamburg", "Germany", 17000, 16000, 99937, 535511),
       SampleFeature("Vilnius", "Lithuania", 63000, 55000, 252797, 546872),
       SampleFeature("Thessaloniki", "Greece", 62000, 56000, 229444, 406401),
       SampleFeature("Odessa", "USSR", 138000, 154000, 307233, 464775)
     >>]

\* what importJewishPopulationData resolves to when importFromImageMapper came
\* to "result" (ImportFailed: it threw)
Resolution(result) ==
    IF result = ImportFailed THEN createSampleJewishPopulationData
    ELSE IF "features" \in DOMAIN result
    THEN [result EXCEPT !.features = [i \in 1..Len(@) |-> MarkFeature(@[i])]]
    ELSE result

\* importJewishPopulationData(url) is called: the first configuration file is asked for
importJewishPopulationData(url) ==
    /\ IF importCall = NULL THEN TRUE ELSE importCall.awaiting = "nothing"
    /\ importCall' = [url |-> url, awaiting |-> "config", fetches |-> <<>>, configs |-> <<>>]
    /\ importResult' = Pending
    /\ UNCHANGED <<referencePoints, isCalibrated, transform, calibrationStatus,
                   measurements, annotations, pendingReferencePoint,
                   calibrationModal,
                   localStorage, viewVars, toolVars, callVars, noteVars, workerVars>>

\* the configurations fetched so far and the one of an ok response
WithConfig(configs, file, outcome) ==
    IF FetchFailed(outcome) THEN configs
    ELSE Append(configs, [file |-> file, data |-> parseJSConfig(outcome.body)])

\* the call resolves to Resolution(result)
Resolves(fetches, result) ==
    /\ importCall' = [importCall EXCEPT !.awaiting = "nothing", !.fetches = fetches]
    /\ importResult' = Resolution(result)

\* after the last configuration file: the configurations are processed when
\* there is one, else the page is asked for
AfterConfigs(fetches, configs) ==
    IF Len(configs) > 0
    THEN Resolves(fetches, processImageMapperData(configs))
    ELSE /\ importCall' = [importCall EXCEPT !.awaiting = "page", !.fetches = fetches]
         /\ UNCHANGED importResult

\* the fetch of a configuration file settles
configFetchSettles(outcome) ==
    /\ importCall # NULL
    /\ importCall.awaiting = "config"
    /\ IF Len(importCall.fetches) + 1 < Len(ConfigFiles)
       THEN /\ importCall' =
                 [importCall EXCEPT
                    !.fetches = Append(@, outcome),
                    !.configs = WithConfig(@, ConfigFiles[Len(importCall.fetches) + 1], outcome)]
            /\ UNCHANGED importResult
       ELSE AfterConfigs(Append(importCall.fetches, outcome),
                         WithConfig(importCall.configs,
                                    ConfigFiles[Len(importCall.fetches) + 1], outcome))
    /\ UNCHANGED <<referencePoints, isCalibrated, transform, calibrationStatus,
                   measurements, annotations, pendingReferencePoint,
                   calibrationModal,
                   localStorage, viewVars, toolVars, callVars, noteVars, workerVars>>

\* the fetch of the page settles
pageFetchSettles(outcome) ==
    /\ importCall # NULL
    /\ importCall.awaiting = "page"
    /\ Resolves(Append(importCall.fetches, outcome),
                extractDataFromPage(importCall.url, outcome))
    /\ UNCHANGED <<referencePoints, isCalibrated, transform, calibrationStatus,
                   measurements, annotations, pendingReferencePoint,
                   calibrationModal,
                   localStorage, viewVars, toolVars, callVars, noteVars, workerVars>>

ImportNext ==
    \/ \E url \in Urls : importJewishPopulationData(url)
    \/ \E outcome \in ConfigOutcomes : configFetchSettles(outcome)
    \/ \E outcome \in PageOutcomes : pageFetchSettles(outcome)

ImportSpec == Init /\ [][ImportNext]_vars

\* ================================================================== claims
\* helpers of the statements

\* the determinant of the linear part of a transform
Det(t) == Sub(Mul(t.a, t.e), Mul(t.b, t.d))

FiniteTransform(t) ==
    /\ IsFinite(t.a) /\ IsFinite(t.b) /\ IsFinite(t.c)
    /\ IsFinite(t.d) /\ IsFinite(t.e) /\ IsFinite(t.f)

\* |p - q| < 1e-9 degree, for latitudes and longitudes (units of 1e-5 degree)
GeoWithin(p, q) == Lt(Abs(Sub(p, q)), <<1, 10000>>)

\* both pixel deltas of a pair of reference points are below 1e-10
BothAxesDegenerate(p1, p2) ==
    /\ AbsBelowTol(Sub(p2.pixel.x, p1.pixel.x))
    /\ AbsBelowTol(Sub(p2.pixel.y, p1.pixel.y))

\* the least-squares system of the current points is singular
SingularFit ==
    \/ leastSquares(DesignMatrix(referencePoints), LatColumn(referencePoints)) = NULL
    \/ leastSquares(DesignMatrix(referencePoints), LngColumn(referencePoints)) = NULL

\* the transform least squares computes from the current points, NULL if none
LeastSquaresFit ==
    LET lat == leastSquares(DesignMatrix(referencePoints), LatColumn(referencePoints))
        lng == leastSquares(DesignMatrix(referencePoints), LngColumn(referencePoints))
    IN  IF lat = NULL \/ lng = NULL THEN NULL
        ELSE [a |-> lat[1], b |-> lat[2], c |-> lat[3],
              d |-> lng[1], e |-> lng[2], f |-> lng[3]]

\* isCalibrated and transform are those of "self", now and after the step
CalibrationIs(self) ==
    /\ isCalibrated = self.isCalibrated
    /\ transform = self.transform

CalibrationBecomes(self) ==
    /\ isCalibrated' = self.isCalibrated
    /\ transform' = self.transform

\* the reference points of a stored item, none when there is no item
StoredPoints(stored) == IF stored = NULL THEN <<>> ELSE stored.referencePoints

\* the viewer "fresh" has the points and the calibration state of this one
Recovers(fresh) ==
    /\ fresh.referencePoints = referencePoints
    /\ fresh.isCalibrated = isCalibrated
    /\ \A x \in PixelXs, y \in PixelYs :
          pixelToGeo(fresh, x, y) = pixelToGeo(This, x, y)

\* C1: with three or more reference points whose least-squares system is
\* singular, the state calculateTransform leaves is Uncalibrated
\* (isCalibrated is false).  Every state with three or more points is one
\* calculateTransform has left (confirmReferencePoint and loadStoredData run it).
C1_SingularFitUncalibrated ==
    (Len(referencePoints) >= 3 /\ SingularFit) => ~isCalibrated

\* C2: isCalibrated and transform are determined by the referencePoints list
\* alone: a step that ends with the list it started with (a reload of the page
\* is the only way to reach a list by another history) leaves both unchanged.
C2_FitDeterminedByPoints ==
    [][referencePoints' = referencePoints =>
          (isCalibrated' = isCalibrated /\ transform' = transform)]_vars

\* C3: with fewer than 2 reference points isCalibrated is false and transform
\* is null, in every reachable state.
C3_FewPointsUncalibrated ==
    Len(referencePoints) < 2 => (~isCalibrated /\ transform = NULL)

C3_Witness ==
    /\ Len(referencePoints) = 1
    /\ localStorage # NULL
    /\ ~calibrationModal

\* C4: for every two-point calibration not rejected as degenerate (pairs that
\* differ in only one pixel axis included), pixelToGeo of each reference pixel
\* returns that reference point's latitude and longitude within 1e-9.
C4_TwoPointReproducesReferences ==
    (/\ Len(referencePoints) = 2
     /\ ~BothAxesDegenerate(referencePoints[1], referencePoints[2]))
    => \A i \in 1..2 :
          LET rp == referencePoints[i]
              g == pixelToGeo(This, rp.pixel.x, rp.pixel.y)
          IN  /\ g # NULL
              /\ GeoWithin(g.lat, rp.geo.lat)
              /\ GeoWithin(g.lng, rp.geo.lng)

\* C5: with exactly two points that are not both-axes degenerate,
\* isCalibrated is true and the transform is a = 0, b = dLat/dy,
\* c = lat1 - b*y1, d = dLng/dx, e = 0, f = lng1 - d*x1.
C5_TwoPointAxisAligned ==
    (/\ Len(referencePoints) = 2
     /\ ~BothAxesDegenerate(referencePoints[1], referencePoints[2]))
    => LET p1 == referencePoints[1]
           p2 == referencePoints[2]
           b == Div(Sub(p2.geo.lat, p1.geo.lat), Sub(p2.pixel.y, p1.pixel.y))
           d == Div(Sub(p2.geo.lng, p1.geo.lng), Sub(p2.pixel.x, p1.pixel.x))
       IN  /\ isCalibrated
           /\ transform # NULL
           /\ transform.a = Zero
           /\ transform.b = b
           /\ transform.c = Sub(p1.geo.lat, Mul(b, p1.pixel.y))
           /\ transform.d = d
           /\ transform.e = Zero
           /\ transform.f = Sub(p1.geo.lng, Mul(d, p1.pixel.x))

C5_Witness ==
    /\ Len(referencePoints) = 2
    /\ isCalibrated
    /\ transform # NULL
    /\ transform.b = One
    /\ transform.d = <<1, 2>>

\* C6: when the second reference point has the pixel of the first, the state
\* after confirmReferencePoint is Uncalibrated: isCalibrated is false, no
\* transform with a NaN or infinite coefficient is stored, and pixelToGeo and
\* geoToPixel return null.
C6_SamePixelUncalibrated ==
    (/\ Len(referencePoints) = 2
     /\ BothAxesDegenerate(referencePoints[1], referencePoints[2]))
    => /\ ~isCalibrated
       /\ (transform = NULL \/ FiniteTransform(transform))
       /\ \A x \in PixelXs, y \in PixelYs : pixelToGeo(This, x, y) = NULL
       /\ \A lat \in GeoCoords, lng \in GeoCoords : geoToPixel(This, lat, lng) = NULL

C6_Witness ==
    /\ Len(referencePoints) = 2
    /\ referencePoints[1].pixel = referencePoints[2].pixel
    /\ referencePoints[1].geo # referencePoints[2].geo
    /\ localStorage # NULL
    /\ ~calibrationModal
    /\ ~isCalibrated

\* C7: with three or more reference points the transform in use is the one
\* leastSquares computes from all current points (none when it computes
\* none), and no longer the two-point transform.
C7_ThreePointsUseLeastSquares ==
    Len(referencePoints) >= 3 => transform = LeastSquaresFit

\* C8: pixelToGeo returns null in every Uncalibrated state, and in every
\* state whose flag is Calibrated it returns lat = a*x + b*y + c,
\* lng = d*x + e*y + f of the current transform, never null.
C8_PixelToGeoTotalWhenCalibrated ==
    \A x \in PixelXs, y \in PixelYs :
        IF ~isCalibrated THEN pixelToGeo(This, x, y) = NULL
        ELSE /\ transform # NULL
             /\ pixelToGeo(This, x, y) =
                    [lat |-> Add(Add(Mul(transform.a, x), Mul(transform.b, y)), transform.c),
                     lng |-> Add(Add(Mul(transform.d, x), Mul(transform.e, y)), transform.f)]

\* C9: geoToPixel returns null, and divides nothing, when there is no
\* calibration to use (flag false or no transform) or |a*e - b*d| < 1e-10;
\* otherwise it returns x = (e*(lat-c) - b*(lng-f))/det,
\* y = (a*(lng-f) - d*(lat-c))/det with det = a*e - b*d.
C9_GeoToPixelGuarded ==
    \A lat \in GeoCoords, lng \in GeoCoords :
        LET run == geoToPixelRun(This, lat, lng)
            t == transform
        IN  IF ~isCalibrated \/ transform = NULL
            THEN run.ret = NULL /\ run.divisions = 0
            ELSE IF DetBelowTol(Det(t))
            THEN run.ret = NULL /\ run.divisions = 0
            ELSE run.ret =
                   [x |-> Div(Sub(Mul(t.e, Sub(lat, t.c)), Mul(t.b, Sub(lng, t.f))), Det(t)),
                    y |-> Div(Sub(Mul(t.a, Sub(lng, t.f)), Mul(t.d, Sub(lat, t.c))), Det(t))]

C9_Witness ==
    /\ isCalibrated
    /\ transform # NULL
    /\ FiniteTransform(transform)
    /\ Det(transform) # Zero
    /\ DetBelowTol(Det(transform))

\* the round trip geoToPixel(pixelToGeo(x, y)) = (x, y) at every input pixel
RoundTrip ==
    \A x \in PixelXs, y \in PixelYs :
        LET g == pixelToGeo(This, x, y)
        IN  /\ g # NULL
            /\ geoToPixel(This, g.lat, g.lng) = [x |-> x, y |-> y]

\* C10 (as stated): for every calibrated transform whose linear part is
\* invertible (a*e - b*d different from 0) the round trip returns the pixel.
C10_RoundTripNonzeroDet ==
    (/\ isCalibrated
     /\ transform # NULL
     /\ FiniteTransform(transform)
     /\ Det(transform) # Zero)
    => RoundTrip

\* C10 (amended): for every calibrated transform with |a*e - b*d| >= 1e-10
\* the round trip returns the pixel.
C10_RoundTripAboveTol ==
    (/\ isCalibrated
     /\ transform # NULL
     /\ FiniteTransform(transform)
     /\ ~DetBelowTol(Det(transform)))
    => RoundTrip

C10_Witness ==
    /\ Len(referencePoints) = 3
    /\ isCalibrated
    /\ transform # NULL
    /\ FiniteTransform(transform)
    /\ transform.a # Zero
    /\ transform.e # Zero
    /\ ~DetBelowTol(Det(transform))

\* C11: a step that confirms a reference point with numeric latitude and
\* longitude (the only step after which the list is longer) appends exactly
\* one point, {pixel: the pending clicked pixel, geo: {lat, lng}}, behind the
\* earlier points in their order; isCalibrated and transform are those
\* calculateTransform computes from the new list, and the item written to
\* storage is the data of that refitted state.
C11_ConfirmAppendsRefitsSaves ==
    [][Len(referencePoints') > Len(referencePoints) =>
          /\ \E lat \in GeoCoords, lng \in GeoCoords :
                referencePoints' =
                    Append(referencePoints,
                           [pixel |-> pendingReferencePoint,
                            geo |-> [lat |-> lat, lng |-> lng]])
          /\ CalibrationBecomes(calculateTransform(
                 [This EXCEPT !.referencePoints = referencePoints']))
          /\ localStorage' = saveData(This')]_vars

C11_Witness ==
    /\ Len(referencePoints) = 3
    /\ referencePoints[3].pixel = pendingReferencePoint
    /\ referencePoints[3].pixel # referencePoints[2].pixel
    /\ isCalibrated
    /\ transform # NULL
    /\ FiniteTransform(transform)
    /\ transform.a # Zero
    /\ localStorage # NULL
    /\ Len(localStorage.referencePoints) = 3
    /\ ~calibrationModal

\* C12: a confirmed resetCalibration (the stored item is rewritten without
\* reference points) or a confirmed clearAllData (the stored item is removed)
\* ends with referencePoints empty, isCalibrated false and transform null,
\* whatever the state before.
C12_ResetClearsCalibration ==
    [][(/\ localStorage' # localStorage
        /\ StoredPoints(localStorage') = <<>>)
       => (referencePoints' = <<>> /\ ~isCalibrated' /\ transform' = NULL)]_vars

C12_Witness ==
    /\ localStorage # NULL
    /\ localStorage.referencePoints = <<>>
    /\ referencePoints = <<>>
    /\ ~isCalibrated
    /\ transform = NULL
    /\ pendingReferencePoint # NULL

\* C16: refit is idempotent: in every state calculateTransform has left,
\* running calculateTransform again on the unchanged referencePoints leaves
\* isCalibrated and every transform coefficient as they are.
C16_RefitIdempotent == CalibrationIs(calculateTransform(This))

C16_Witness ==
    /\ Len(referencePoints) = 3
    /\ isCalibrated
    /\ transform # NULL
    /\ FiniteTransform(transform)
    /\ transform.c # Zero
    /\ transform.f # Zero
    /\ ~DetBelowTol(Det(transform))

\* C17: session recovery: whenever the stored item is the data of the
\* session (saveData has run), a fresh start over it (constructor, init,
\* loadStoredData) has the session's referencePoints, its isCalibrated, and
\* a pixelToGeo that returns at every pixel what the session's returns.
C17_SessionRecovery ==
    localStorage = saveData(This) => Recovers(init(Constructed, localStorage))

\* ------------------------------------------------- claims on the solver
\* the matrix A without its first row and its column j
Minor(A, j) ==
    [r \in 1..(Len(A) - 1) |->
        [c \in 1..(Len(A) - 1) |-> A[r + 1][IF c < j THEN c ELSE c + 1]]]

\* the determinant of A, expanded along its first row
RECURSIVE Determinant(_)
Determinant(A) ==
    IF Len(A) = 1 THEN A[1][1]
    ELSE LET term[j \in 0..Len(A)] ==
                 IF j = 0 THEN Zero
                 ELSE Add(term[j - 1],
                          Mul(IF j % 2 = 1 THEN A[1][j] ELSE Neg(A[1][j]),
                              Determinant(Minor(A, j))))
         IN  term[Len(A)]

\* the product A * x
MatVec(A, x) ==
    [i \in 1..Len(A) |->
        LET s[j \in 0..Len(x)] ==
                IF j = 0 THEN Zero ELSE Add(s[j - 1], Mul(A[i][j], x[j]))
        IN  s[Len(x)]]

AllFinite(x) == \A i \in 1..Len(x) : IsFinite(x[i])

\* C13: gaussianElimination(A, b) on a square system returns null whenever
\* A is singular, and whenever it returns a vector x, every entry of x is a
\* finite number (no division by a zero pivot) and A * x = b.
C13_SolverNullOrSolution ==
    (system # NULL /\ returned # Pending) =>
        /\ Determinant(system.A) = Zero => returned = NULL
        /\ returned # NULL =>
              /\ AllFinite(returned)
              /\ MatVec(system.A, returned) = system.b

\* a 3 x 3 system whose first pivot needed a row swap, solved with a
\* fractional entry; and a singular one the solver refused
C13_Witness ==
    /\ system # NULL
    /\ Len(system.A) = 3
    /\ system.A[1][1] = Zero
    /\ Determinant(system.A) # Zero
    /\ returned # Pending
    /\ returned # NULL
    /\ \E i \in 1..3 : returned[i][2] > 1

\* ---------------------------------------------------- claims on the fit
\* the pixels of the points all lie on one line
PixelsCollinear(pts) ==
    \A i, j, k \in 1..Len(pts) :
        Mul(Sub(pts[j].pixel.x, pts[i].pixel.x), Sub(pts[k].pixel.y, pts[i].pixel.y))
          = Mul(Sub(pts[k].pixel.x, pts[i].pixel.x), Sub(pts[j].pixel.y, pts[i].pixel.y))

\* a call of calculateAffineTransform has returned
Fitted == system = NULL /\ returned # Pending

\* C14: for three or more reference points whose pixels all lie on one
\* line, leastSquares returns null for the latitude fit and for the
\* longitude fit, whatever the geographic values are.
C14_CollinearFitsNull ==
    (Fitted /\ Len(referencePoints) >= 3 /\ PixelsCollinear(referencePoints)) =>
        /\ returned.latCoeffs = NULL
        /\ returned.lngCoeffs = NULL

\* the pixels (0,0), (1,1), (2,2) with coordinates that no line through them
\* explains: both fits returned null
C14_Witness ==
    /\ Fitted
    /\ Len(referencePoints) = 3
    /\ referencePoints[1].pixel = [x |-> Zero, y |-> Zero]
    /\ referencePoints[2].pixel = [x |-> One, y |-> One]
    /\ referencePoints[3].pixel = [x |-> Num(2), y |-> Num(2)]
    /\ referencePoints[1].geo.lat = referencePoints[3].geo.lat
    /\ referencePoints[1].geo.lat # referencePoints[2].geo.lat
    /\ referencePoints[1].geo.lng # referencePoints[2].geo.lng
    /\ returned.latCoeffs = NULL
    /\ returned.lngCoeffs = NULL
    /\ transform = NULL

\* the affine map gives every point its coordinates exactly
GeneratedBy(pts, map) ==
    \A i \in 1..Len(pts) : pts[i].geo = ApplyMap(map, pts[i].pixel)

\* C15: for three or more reference points that are not collinear in pixel
\* space and whose coordinates an affine map (a, b, c, d, e, f) generates
\* exactly, calculateAffineTransform stores a transform equal to that map:
\* the residual at every reference point is zero. (Three points that are
\* not collinear are generated by a map whatever their coordinates are.)
C15_ExactFitRecovered ==
    (Fitted /\ Len(referencePoints) >= 3 /\ ~PixelsCollinear(referencePoints)) =>
        /\ \A map \in AffineMaps :
              GeneratedBy(referencePoints, map) => transform = map
        /\ (Len(referencePoints) = 3
              \/ \E map \in AffineMaps : GeneratedBy(referencePoints, map)) =>
              /\ transform # NULL
              /\ GeneratedBy(referencePoints, transform)

\* four distinct pixels, not on a line, with the coordinates of the map
\* lat = x/2 - y + 1, lng = 2x - y/3: the transform stored is that map
C15_Witness ==
    /\ Fitted
    /\ Len(referencePoints) = 4
    /\ \A i, j \in 1..4 : i # j => referencePoints[i].pixel # referencePoints[j].pixel
    /\ ~PixelsCollinear(referencePoints)
    /\ transform = [a |-> <<1, 2>>, b |-> Num(-1), c |-> One,
                    d |-> Num(2), e |-> <<-1, 3>>, f |-> Zero]
    /\ GeneratedBy(referencePoints, transform)

\* ------------------------------------------------------ claims on the view
\* C18: zoom limits: in every reachable state viewport.scale lies within
\* [minScale, maxScale] = [0.1, 10], after any sequence of map image loads
\* and wheel events, for every image size and display size.
C18_ScaleWithinLimits ==
    /\ viewport.minScale = <<1, 10>>
    /\ viewport.maxScale = Num(10)
    /\ ~Lt(viewport.scale, viewport.minScale)
    /\ ~Gt(viewport.scale, viewport.maxScale)

\* C19: visual feedback of a measurement: the second click of a two-point
\* measurement (the click that records the measurement) leaves a canvas
\* whose render drew the dashed line between the two measurement points.
C19_DashedLineDrawn ==
    [][(Len(measurementPoints) = 1 /\ Len(measurements') = Len(measurements) + 1)
          => canvas'.measurement.dashedLine]_vars

\* --------------------------------------------------- claims on the importer
\* the call has resolved after every fetch, of the three configuration files
\* and of the page, failed
EveryFetchFailed ==
    /\ importCall # NULL
    /\ importCall.awaiting = "nothing"
    /\ Len(importCall.fetches) = Len(ConfigFiles) + 1
    /\ \A i \in 1..Len(importCall.fetches) : FetchFailed(importCall.fetches[i])

\* C20: when every fetch of the configuration files and of the page fails,
\* importJewishPopulationData resolves to the sample Jewish population
\* FeatureCollection of createSampleJewishPopulationData.
C20_FallsBackToSample ==
    EveryFetchFailed => importResult = createSampleJewishPopulationData

\* ------------------------------------------- claims on the service worker
\* the promise the install listener gave to waitUntil is fulfilled
InstallCompleted == serviceWorker # NULL /\ serviceWorker.phase # "parsed"

\* C21: works offline after first load: once the install event has completed
\* successfully, every URL of urlsToCache is stored in the cache CACHE_NAME,
\* and a fetch event for any of them is answered from the cache.
C21_AppShellCached ==
    InstallCompleted =>
        /\ CACHE_NAME \in DOMAIN caches
        /\ AppShell \subseteq caches[CACHE_NAME]
        /\ (serviceWorker.response # NULL /\ serviceWorker.response.url \in AppShell)
              => serviceWorker.response.from = "cache"

\* the promise the activate listener gave to waitUntil has resolved
Activated == serviceWorker # NULL /\ serviceWorker.phase = "activated"

\* C26: activation cleans up old caches: when the activate handler's
\* waitUntil promise has resolved, every cache that existed at the start with
\* a name other than CACHE_NAME has been deleted, and the cache named
\* CACHE_NAME has not been deleted.
C26_OldCachesDeleted ==
    Activated =>
        /\ \A cacheName \in serviceWorker.keys :
              cacheName # CACHE_NAME => cacheName \notin DOMAIN caches
        /\ CACHE_NAME \in serviceWorker.keys => CACHE_NAME \in DOMAIN caches

\* two old caches existed next to the current one when activation started;
\* the current one, with the app shell in it, is all that is left
C26_Witness ==
    /\ Activated
    /\ serviceWorker.keys = OldCacheNames \cup {CACHE_NAME}
    /\ DOMAIN caches = {CACHE_NAME}
    /\ AppShell \subseteq caches[CACHE_NAME]

\* C24: a confirmReferencePoint whose latitude or longitude field does not
\* parse as a number (parseFloat gives NaN) leaves referencePoints,
\* isCalibrated, transform and the stored data as they were.
C24_InvalidInputChangesNothing ==
    [][(\E lat \in ParsedInputs, lng \in ParsedInputs :
            /\ IsNaN(lat) \/ IsNaN(lng)
            /\ confirmReferencePoint(lat, lng))
       => UNCHANGED <<referencePoints, isCalibrated, transform, localStorage>>]_vars

\* the modal is open over a calibrated, saved session that takes another point
C24_Witness ==
    /\ calibrationModal
    /\ pendingReferencePoint # NULL
    /\ Len(referencePoints) = 2
    /\ isCalibrated
    /\ transform # NULL
    /\ localStorage # NULL
    /\ localStorage.referencePoints = referencePoints

\* C27: in every state reachable by loadStoredData, confirmReferencePoint,
\* resetCalibration and clearAllData, isCalibrated true implies that
\* transform is not null.
C27_CalibratedHasTransform == isCalibrated => transform # NULL

\* C28: at the end of init and of every confirmReferencePoint,
\* resetCalibration and clearAllData the status element agrees with the
\* state: 'Calibrated (N points)' with N the number of reference points when
\* isCalibrated, 'Not Calibrated' otherwise, although calculateTransform
\* leaves the element alone on its two early returns.
C28_StatusAgreesWithState == calibrationStatus = StatusText(This)

\* a confirm whose calculateTransform returned early on a degenerate pair
C28_Witness ==
    /\ Len(referencePoints) = 2
    /\ TwoPointDegenerate(referencePoints[1], referencePoints[2])
    /\ ~isCalibrated
    /\ calibrationStatus = [text |-> "Not Calibrated", points |-> 0]
    /\ localStorage # NULL
    /\ Len(localStorage.referencePoints) = 2
    /\ ~calibrationModal

\* C23: the two-click protocol of the measure tool: after every
\* addMeasurementPoint measurementPoints holds 0 or 1 points; the call that
\* brings the second point appends exactly one entry to measurements, with
\* both points in click order, and empties measurementPoints; setTool with a
\* tool other than 'measure' empties measurementPoints.
C23_TwoClickProtocol ==
    [][/\ Len(measurementPoints') <= 1
       /\ \A click \in Clicks :
             LET p == screenToMap(viewport, Num(click[1]), Num(click[2]))
             IN  (/\ mapImage # NULL
                  /\ currentTool = "measure"
                  /\ Len(measurementPoints) = 1
                  /\ addMeasurementPoint(p.x, p.y))
                 => /\ Len(measurements') = Len(measurements) + 1
                    /\ SubSeq(measurements', 1, Len(measurements)) = measurements
                    /\ measurements'[Len(measurements')].points =
                           <<measurementPoints[1], [x |-> p.x, y |-> p.y]>>
                    /\ measurementPoints' = <<>>
       /\ \A tool \in Tools \ {"measure"} :
             setTool(tool) => measurementPoints' = <<>>]_vars

\* a measurement between two different clicks is saved and the tool is ready
\* for the next one
C23_Witness ==
    /\ currentTool = "measure"
    /\ Len(measurements) = 1
    /\ measurements[1].points[1] # measurements[1].points[2]
    /\ measurementPoints = <<>>
    /\ localStorage # NULL
    /\ Len(localStorage.measurements) = 1

\* C25: a confirmed resetCalibration leaves annotations, measurements,
\* geoJsonData and the viewport unchanged, and the item it stores holds the
\* annotations and the measurements; when the confirm() dialog is declined,
\* neither resetCalibration nor clearAllData changes any state or stored data.
C25_ResetKeepsData ==
    [][/\ resetCalibration(TRUE) =>
             /\ UNCHANGED <<annotations, measurements, geoJsonData, viewport>>
             /\ IF localStorage' = NULL THEN FALSE
                ELSE /\ localStorage'.annotations = saveData(This).annotations
                     /\ localStorage'.measurements = saveData(This).measurements
       /\ (resetCalibration(FALSE) \/ clearAllData(FALSE)) => UNCHANGED vars]_vars

\* the calibration under which the annotation got its geo is gone; the
\* annotation, the measurement, the overlay and the fitted viewport are kept
C25_Witness ==
    /\ referencePoints = <<>>
    /\ ~isCalibrated
    /\ transform = NULL
    /\ Len(annotations) = 1
    /\ "geo" \in DOMAIN annotations[1]
    /\ annotations[1].geo # NULL
    /\ Len(measurements) = 1
    /\ geoJsonData # NULL
    /\ mapImage # NULL
    /\ viewport # ConstructedViewport
    /\ localStorage # NULL
    /\ localStorage.referencePoints = <<>>
    /\ Len(localStorage.annotations) = 1
    /\ Len(localStorage.measurements) = 1

\* C29: the geo of an annotation is fixed at creation: confirmAnnotation
\* appends an annotation of the pending pixel whose geo is what pixelToGeo
\* returns for that pixel under the current transform (no geo field when
\* uncalibrated), and no later confirmReferencePoint or resetCalibration
\* changes an existing annotation.
C29_AnnotationGeoFixed ==
    [][/\ (\E label \in Labels \ {""} : confirmAnnotation(label)) =>
             /\ Len(annotations') = Len(annotations) + 1
             /\ SubSeq(annotations', 1, Len(annotations)) = annotations
             /\ LET made == annotations'[Len(annotations')]
                IN  /\ made.pixel = pendingAnnotation
                    /\ IF isCalibrated
                       THEN /\ "geo" \in DOMAIN made
                            /\ made.geo = pixelToGeo(This, pendingAnnotation.x,
                                                     pendingAnnotation.y)
                       ELSE "geo" \notin DOMAIN made
       /\ ((\E geo \in ParsedInputs : confirmReferencePoint(geo, geo))
           \/ (\E confirmed \in BOOLEAN : resetCalibration(confirmed)))
          => annotations' = annotations]_vars

\* an annotation keeps the geo it got although the calibration in force now
\* maps its pixel elsewhere
C29_Witness ==
    /\ Len(annotations) = 1
    /\ "geo" \in DOMAIN annotations[1]
    /\ annotations[1].geo # NULL
    /\ isCalibrated
    /\ transform # NULL
    /\ FiniteTransform(transform)
    /\ pixelToGeo(This, annotations[1].pixel.x, annotations[1].pixel.y)
           # annotations[1].geo
    /\ localStorage # NULL
    /\ Len(localStorage.referencePoints) = 3

\* C22: the great-circle distance is symmetric, haversineDistance(p.lat,
\* p.lng, q.lat, q.lng) = haversineDistance(q.lat, q.lng, p.lat, p.lng) for
\* all points p and q, and the distance from a point to itself is 0.
C22_DistanceSymmetric ==
    returned # Pending =>
        /\ returned = haversineDistance(system.lat2, system.lng2,
                                        system.lat1, system.lng1)
        /\ (system.lat1 = system.lat2 /\ system.lng1 = system.lng2)
              => returned = Angle(Zero)

\* a distance between two points of different latitude and longitude: a
\* third of the way round when the points are 120 degrees apart
C22_Witness ==
    /\ returned # Pending
    /\ system.lat1 # system.lat2
    /\ system.lng1 # system.lng2
    /\ returned # Angle(Zero)
    /\ "piOver180" \in DOMAIN returned
    /\ returned.piOver180 = Num(6371000 * 120)
====
